---- MODULE Spec2Model ----
(***************************************************************************)
(* A model of the layout engine of ndarray's shape/strides rewrite:        *)
(* src/src/layout/*.rs, src/src/broadcast.rs, src/src/dimension/axes.rs    *)
(* and the broadcasting callers of src/src/numeric/impl_num_traits.rs.     *)
(*                                                                         *)
(* usize and isize are modelled at a width of Bits bits (two's complement),*)
(* so that every overflow case of the 64-bit program has a counterpart     *)
(* that TLC can enumerate.  Arithmetic written with plain operators in the *)
(* source (`*`, `+`, `-`) panics in a build with overflow checks and wraps *)
(* in a build without them; `build` records which one is running.         *)
(***************************************************************************)
EXTENDS Integers, Sequences, FiniteSets, TLC

VARIABLES
    build,      \* "debug" (overflow checks on) or "release" (wrapping)
    pc,         \* "idle" | "done" | "Checked" | "NStrides" | "panicked"
    made,       \* the constructor that made the value that is live
    op,         \* the last operation applied
    kind,       \* the shape type the operation was called on
    shape,      \* the shape value (a sequence of usize)
    strides,    \* the strides value (a sequence of isize)
    esize,      \* size_of::<T>() of the element type
    arg,        \* further scalar arguments (ndim, value, index)
    ret,        \* the returned value
    out,        \* a returned sequence (an iterator's items, a view)
    hist        \* the calls made on the live iterator, in order

vars == <<build, pc, made, op, kind, shape, strides, esize, arg, ret, out, hist>>

----------------------------------------------------------------------------
(* Bounds of the model *)

Bits == 10
MaxRank == 3
MaxLayoutRank == 3
MaxBytesRank == 2
MaxBroadcastRank == 2
MaxDynRank == 5

\* dyn_repr.rs: const CAP
CAP == 4

----------------------------------------------------------------------------
(* Machine integers *)

Modulus == 2 ^ Bits
USIZE_MAX == Modulus - 1
ISIZE_MAX == (Modulus \div 2) - 1
ISIZE_MIN == 0 - (Modulus \div 2)

Builds == {"debug", "release"}

\* Option / Result values; a panic is an outcome of its own.
Some(v) == [tag |-> "Some", val |-> v]
None == [tag |-> "None", val |-> 0]
Panic == [tag |-> "Panic", val |-> 0]
Ok(v) == [tag |-> "Ok", val |-> v]
Err(e, v) == [tag |-> e, val |-> v]
Bool(b) == [tag |-> IF b THEN "true" ELSE "false", val |-> 0]
Unit == [tag |-> "Unit", val |-> 0]

\* `v as isize` for a usize v: reinterpretation of the bits.
as_isize(v) == IF v > ISIZE_MAX THEN v - Modulus ELSE v

\* The two's complement value of a mathematical integer (wrapping arithmetic).
wrap_isize(x) == ((x - ISIZE_MIN) % Modulus) + ISIZE_MIN

InIsize(x) == ISIZE_MIN <= x /\ x <= ISIZE_MAX

\* usize::checked_mul
usize_checked_mul(a, b) == IF a * b <= USIZE_MAX THEN Some(a * b) ELSE None

\* isize::checked_mul, isize::checked_sub
isize_checked_mul(a, b) == IF InIsize(a * b) THEN Some(a * b) ELSE None
isize_checked_sub(a, b) == IF InIsize(a - b) THEN Some(a - b) ELSE None

\* FitsInISize for usize
fits_in_isize(v) == v <= ISIZE_MAX
as_usize_if_isize_compatible(v) == IF fits_in_isize(v) THEN Some(v) ELSE None

\* An isize operation written with a plain operator, whose mathematical
\* result is x: a panic with overflow checks, the wrapped value without.
plain_isize(b, x) ==
    IF InIsize(x) THEN Some(x)
    ELSE IF b = "debug" THEN Panic ELSE Some(wrap_isize(x))

----------------------------------------------------------------------------
(* Shape: element counts *)

ShapeKinds == {"Default", "NShape", "DShape"}

\* iter().try_fold(1_usize, |acc, &i| acc.checked_mul(i)), from item i on
RECURSIVE try_fold_checked_mul(_, _, _)
try_fold_checked_mul(s, i, acc) ==
    IF i > Len(s) THEN Some(acc)
    ELSE LET m == usize_checked_mul(acc, s[i])
         IN  IF m.tag = "None" THEN None
             ELSE try_fold_checked_mul(s, i + 1, m.val)

\* Shape::size_checked, the trait's default method
Shape_size_checked(s) ==
    LET p == try_fold_checked_mul(s, 1, 1)
    IN  IF p.tag = "None" THEN None ELSE as_usize_if_isize_compatible(p.val)

\* NShape<N>::size_checked
NShape_size_checked(s) == try_fold_checked_mul(s, 1, 1)

\* DynAxesRepr<usize>::size_checked
DShape_size_checked(s) == try_fold_checked_mul(s, 1, 1)

\* size_checked as dispatched on the shape type
size_checked(k, s) ==
    CASE k = "NShape" -> NShape_size_checked(s)
      [] k = "DShape" -> DShape_size_checked(s)
      [] OTHER -> Shape_size_checked(s)

\* Shape::size_bytes_checked::<T>, a default method no type overrides
size_bytes_checked(k, s, sz) ==
    LET n == size_checked(k, s)
    IN  IF n.tag = "None" THEN None
        ELSE LET b == usize_checked_mul(n.val, sz)
             IN  IF b.tag = "None" THEN None
                 ELSE as_usize_if_isize_compatible(b.val)

----------------------------------------------------------------------------
(* Layout: offset ranges *)

Min(a, b) == IF a <= b THEN a ELSE b
Max(a, b) == IF a >= b THEN a ELSE b

\* Shape::iter_isize_checked: the lengths cast to isize, if size_checked is Some
iter_isize_checked(k, s) ==
    IF size_checked(k, s).tag = "None" THEN None
    ELSE Some([i \in 1..Len(s) |-> as_isize(s[i])])

\* The item of offset_range_checked with an axis of length 0 passed over
offset_item_skip_empty(b, sh, st) ==
    IF sh = 0 THEN Some(<<0, 0>>)
    ELSE LET d == plain_isize(b, sh - 1)
         IN  IF d.tag = "Panic" THEN Panic
             ELSE LET v == isize_checked_mul(d.val, st)
                  IN  IF v.tag = "None" THEN None
                      ELSE Some(<<Min(v.val, 0), Max(v.val, 0)>>)

\* One item of the mapped iterator of offset_range_checked:
\* (sh - 1).checked_mul(*st).map(|v| (v.min(0), v.max(0)))
offset_item(b, sh, st) ==
    LET d == plain_isize(b, sh - 1)
    IN  IF d.tag = "Panic" THEN Panic
        ELSE LET v == isize_checked_mul(d.val, st)
             IN  IF v.tag = "None" THEN None
                 ELSE Some(<<Min(v.val, 0), Max(v.val, 0)>>)

\* .try_fold((0, 0), |acc, x| x.map(|x_| (acc.0 + x_.0, acc.1 + x_.1))) over
\* the zipped items from position i on; the zip ends with the shorter side.
RECURSIVE offset_try_fold(_, _, _, _, _)
offset_try_fold(b, sh, st, i, acc) ==
    IF i > Len(sh) \/ i > Len(st) THEN Some(acc)
    ELSE LET x == offset_item(b, sh[i], st[i])
         IN  IF x.tag # "Some" THEN x
             ELSE LET lo == plain_isize(b, acc[1] + x.val[1])
                      hi == plain_isize(b, acc[2] + x.val[2])
                  IN  IF lo.tag = "Panic" \/ hi.tag = "Panic" THEN Panic
                      ELSE offset_try_fold(b, sh, st, i + 1, <<lo.val, hi.val>>)

\* layout::offset_range_checked(shape, strides)
offset_range_checked(b, k, s, st) ==
    LET it == iter_isize_checked(k, s)
    IN  IF it.tag = "None" THEN None
        ELSE LET f == offset_try_fold(b, it.val, st, 1, <<0, 0>>)
             IN  IF f.tag # "Some" THEN f
                 ELSE isize_checked_sub(f.val[2], f.val[1])

\* num_traits::ToPrimitive::to_isize for usize
to_isize(v) == IF v <= ISIZE_MAX THEN Some(v) ELSE None

\* layout::offset_range_bytes_checked::<T>(shape, strides), which
\* NLayout::offset_range_bytes_checked forwards to
offset_range_bytes_checked(b, k, s, st, sz) ==
    LET size == to_isize(sz)
    IN  IF size.tag = "None" THEN None
        ELSE LET off == offset_range_checked(b, k, s, st)
             IN  IF off.tag # "Some" THEN off
                 ELSE isize_checked_mul(off.val, size.val)

\* Layout::offset_range_bytes_checked::<T>, the trait's default method
Layout_offset_range_bytes_checked(b, k, s, st, sz) ==
    LET size == to_isize(sz)
    IN  IF size.tag = "None" THEN None
        ELSE LET off == offset_range_checked(b, k, s, st)
             IN  IF off.tag # "Some" THEN off
                 ELSE isize_checked_mul(size.val, off.val)

\* DynLayout::offset_range_bytes_checked::<T>
DynLayout_offset_range_bytes_checked(b, k, s, st, sz) ==
    LET size == to_isize(sz)
    IN  IF size.tag = "None" THEN None
        ELSE LET off == offset_range_checked(b, k, s, st)
             IN  IF off.tag # "Some" THEN off
                 ELSE isize_checked_mul(off.val, size.val)

\* The byte-range method of the layout type that holds a shape of type k:
\* NLayout holds an NShape, DynLayout a DShape, and a layout over any other
\* shape type inherits the trait's default.
layout_offset_range_bytes_checked(b, k, s, st, sz) ==
    CASE k = "NShape" -> offset_range_bytes_checked(b, k, s, st, sz)
      [] k = "DShape" -> DynLayout_offset_range_bytes_checked(b, k, s, st, sz)
      [] OTHER -> Layout_offset_range_bytes_checked(b, k, s, st, sz)

----------------------------------------------------------------------------
(* Dynamic shapes: DynAxesRepr<T> is Inline(len, [T; CAP]) or Alloc(Box<[T]>) *)

Inline(n, a) == [variant |-> "Inline", len |-> n, items |-> a]
Alloc(v) == [variant |-> "Alloc", len |-> 0, items |-> v]

\* Deref for DynAxesRepr: the slice of the axes
DynAxesRepr_deref(d) ==
    IF d.variant = "Inline" THEN SubSeq(d.items, 1, d.len) ELSE d.items

\* DynAxesRepr<usize>::try_full: above CAP the Vec is made with a capacity
\* of ndim and length 0, and fill() writes the elements it has, none.
DShape_try_full(ndim, value) ==
    IF ndim <= CAP THEN Ok(Inline(ndim, [i \in 1..CAP |-> value]))
    ELSE Ok(Alloc(<<>>))

\* NShape<N>::try_full
NShape_try_full(N, ndim, value) ==
    IF ndim = N THEN Ok([i \in 1..N |-> value])
    ELSE Err("BadDimality", ndim)

\* Dimensioned::ndim for DynAxesRepr
DynAxesRepr_ndim(d) == IF d.variant = "Inline" THEN d.len ELSE Len(d.items)

\* From<Rhs: AsRef<[T]>> for DynAxesRepr<T>: up to CAP items are copied into
\* an inline array of T::default() (0), more are boxed.
DynAxesRepr_from(value) ==
    LET n == Len(value)
    IN  IF n <= CAP
        THEN Inline(n, [i \in 1..CAP |-> IF i <= n THEN value[i] ELSE 0])
        ELSE Alloc(value)

\* Default for DynAxesRepr<T>: Self::Inline(1, [T::zero(); 4])
DynAxesRepr_default == Inline(1, [i \in 1..CAP |-> 0])

\* Zero for DShape and for DStrides: Self::Inline(1, [0; CAP])
DShape_zero == Inline(1, [i \in 1..CAP |-> 0])
DStrides_zero == Inline(1, [i \in 1..CAP |-> 0])

\* #[derive(PartialEq, Eq)] on DynAxesRepr: the same variant with equal
\* fields, the whole inline array included
DynAxesRepr_eq(a, b) ==
    /\ a.variant = b.variant
    /\ IF a.variant = "Inline"
       THEN a.len = b.len /\ a.items = b.items
       ELSE a.items = b.items

\* Shape::to_dyn and Strides::to_dyn: self.as_slice().into()
to_dyn(slice) == DynAxesRepr_from(slice)

\* try_to_nshape with the error carrying N
try_to_nshape_err_n(N, ndim, slice) ==
    IF ndim = N
    THEN IF Len(slice) # N THEN Panic ELSE Ok([i \in 1..N |-> slice[i]])
    ELSE Err("BadDimality", N)

\* Shape::try_to_nshape::<N> on a shape of ndim() = ndim and as_slice() =
\* slice; copy_from_slice panics if the two lengths differ.
try_to_nshape(N, ndim, slice) ==
    IF ndim = N
    THEN IF Len(slice) # N THEN Panic ELSE Ok([i \in 1..N |-> slice[i]])
    ELSE Err("BadDimality", ndim)

\* Strides::try_to_nstrides::<N>
try_to_nstrides(N, ndim, slice) ==
    IF ndim = N
    THEN IF Len(slice) # N THEN Panic ELSE Ok([i \in 1..N |-> slice[i]])
    ELSE Err("BadDimality", ndim)

\* Dimensioned::ndim and as_slice of a value of type k whose axes are s:
\* NShape<N> / NStrides<N> answer N and the array, DShape / DStrides answer
\* from their representation, ConstMatrixShape<N, M> answers 2 and [N, M].
ndim_of(k, s) ==
    IF k \in {"DShape", "DStrides"} THEN DynAxesRepr_ndim(DynAxesRepr_from(s))
    ELSE IF k = "ConstMatrixShape" THEN 2
    ELSE Len(s)

as_slice_of(k, s) ==
    IF k \in {"DShape", "DStrides"} THEN DynAxesRepr_deref(DynAxesRepr_from(s))
    ELSE s

\* ConstMatrixShape<N, M>::try_full
ConstMatrixShape_try_full(N, M, ndim, value) ==
    IF ndim # 2 THEN Err("BadDimality", ndim)
    ELSE IF value # N THEN Err("FixedIndex", 0)
    ELSE IF value # N THEN Err("FixedIndex", 1)
    ELSE Ok(<<N, M>>)

\* Shape::try_full as dispatched on the shape type; tp holds the const
\* parameters of the type (N of NShape<N>, N and M of ConstMatrixShape<N, M>)
\* and the value is the axes of the shape returned.
try_full(k, tp, ndim, value) ==
    CASE k = "NShape" -> NShape_try_full(tp[1], ndim, value)
      [] k = "ConstMatrixShape" -> ConstMatrixShape_try_full(tp[1], tp[2], ndim, value)
      [] OTHER -> Ok(DynAxesRepr_deref(DShape_try_full(ndim, value).val))

\* DerefMut for DynAxesRepr: todo!()
DynAxesRepr_deref_mut(d) == Panic

\* IndexMut<usize> for DynAxesRepr: &mut (**self)[index], a reference to
\* the axis `index` of the mutable slice
DynAxesRepr_index_mut(d, index) ==
    LET m == DynAxesRepr_deref_mut(d)
    IN  IF m.tag = "Panic" THEN Panic
        ELSE IF index < DynAxesRepr_ndim(d) THEN Ok(index) ELSE Panic

\* DynAxesRepr<usize>::try_index_mut
DShape_try_index_mut(d, index) ==
    IF index < Len(DynAxesRepr_deref(d)) THEN DynAxesRepr_index_mut(d, index)
    ELSE Err("OutOfBounds", index)

\* NShape<N>::try_index_mut: Ok(&mut self[index]), a reference to the axis
NShape_try_index_mut(N, index) ==
    IF index < N THEN Ok(index) ELSE Err("OutOfBounds", index)

\* ConstMatrixShape<N, M>::try_index_mut
ConstMatrixShape_try_index_mut(index) ==
    IF index < 2 THEN Err("FixedIndex", index) ELSE Err("OutOfBounds", index)

\* Shape::try_index_mut as dispatched on the shape type
try_index_mut(k, s, index) ==
    CASE k = "NShape" -> NShape_try_index_mut(Len(s), index)
      [] k = "ConstMatrixShape" -> ConstMatrixShape_try_index_mut(index)
      [] OTHER -> DShape_try_index_mut(DynAxesRepr_from(s), index)

----------------------------------------------------------------------------
(* Checked<T> *)

\* Shape::into_checked: Some(Checked(self)) if size_checked is Some
into_checked(k, s) ==
    IF size_checked(k, s).tag = "None" THEN None ELSE Some(s)

\* Shape::into_checked_for::<T>
into_checked_for(k, s, sz) ==
    IF size_bytes_checked(k, s, sz).tag = "None" THEN None ELSE Some(s)

\* <Checked<T> as Shape>::try_full for T = NShape<N> or T = DShape; the
\* value returned is the shape that the Checked wraps.
Checked_try_full(k, N, ndim, value) ==
    IF usize_checked_mul(ndim, value).tag = "None" THEN Err("ShapeOverflow", 0)
    ELSE IF k = "DShape"
         THEN Ok(DynAxesRepr_deref(DShape_try_full(ndim, value).val))
         ELSE NShape_try_full(N, ndim, value)

\* <Checked<T> as Shape>::try_index_mut
Checked_try_index_mut(s, index) == Err("FixedIndex", index)

\* CheckedShape::size on Checked<T>, whose size_checked is the trait's default
CheckedShape_size(s) ==
    LET n == Shape_size_checked(s)
    IN  IF n.tag = "None" THEN Panic ELSE n

\* CheckedShape::iter_isize
CheckedShape_iter_isize(s) == [i \in 1..Len(s) |-> as_isize(s[i])]

----------------------------------------------------------------------------
(* Strides *)

\* The factor of default_c taken one axis too far to the left, as default_f
\* takes its own: `(shape[N - i - 1] as isize)`
default_c_factor_left(s, i) == as_isize(s[Len(s) - i])

\* `(shape[N - i] as isize)` in default_c: the factor of step i (shape is
\* indexed from 1 here, from 0 in the source)
default_c_factor(s, i) == as_isize(s[Len(s) - i + 1])

\* for i in 1..N { strides[N - i - 1] = strides[N - i] * (shape[N - i] as isize) }
RECURSIVE default_c_loop(_, _, _, _)
default_c_loop(b, s, i, st) ==
    IF i >= Len(s) THEN Some(st)
    ELSE LET m == plain_isize(b, st[Len(s) - i + 1] * default_c_factor(s, i))
         IN  IF m.tag = "Panic" THEN Panic
             ELSE default_c_loop(b, s, i + 1, [st EXCEPT ![Len(s) - i] = m.val])

\* <NStrides<N> as DefaultC>::default_c
default_c(b, s) == default_c_loop(b, s, 1, [i \in 1..Len(s) |-> 1])

\* for i in 1..N { strides[i] = strides[i - 1] * (shape[i] as isize) }
RECURSIVE default_f_loop(_, _, _, _)
default_f_loop(b, s, i, st) ==
    IF i >= Len(s) THEN Some(st)
    ELSE LET m == plain_isize(b, st[i] * as_isize(s[i + 1]))
         IN  IF m.tag = "Panic" THEN Panic
             ELSE default_f_loop(b, s, i + 1, [st EXCEPT ![i + 1] = m.val])

\* <NStrides<N> as DefaultF>::default_f
default_f(b, s) == default_f_loop(b, s, 1, [i \in 1..Len(s) |-> 1])

\* A usize operation written with a plain operator
plain_usize(b, x) ==
    IF x <= USIZE_MAX THEN Some(x)
    ELSE IF b = "debug" THEN Panic ELSE Some(x % Modulus)

\* strides::f_strides, collected: item i is `prod as isize`, then prod *= dim
RECURSIVE f_strides_from(_, _, _, _, _)
f_strides_from(b, s, i, prod, acc) ==
    IF i > Len(s) THEN Some(acc)
    ELSE LET p == plain_usize(b, prod * s[i])
         IN  IF p.tag = "Panic" THEN Panic
             ELSE f_strides_from(b, s, i + 1, p.val, Append(acc, as_isize(prod)))

f_strides(b, s) == f_strides_from(b, s, 1, 1, <<>>)

\* strides::c_strides: shape.iter().rev().map(closure).rev(), where the
\* closure returns prod and then does prod *= dim.  The closure runs in the
\* order the items are taken: next() on the outer rev takes the map's
\* next_back, which takes the inner rev's next_back, the first axis not yet
\* taken of the shape; next_back() takes the last one.  lo..hi are the
\* axes not yet taken, acc the items yielded so far.
RECURSIVE c_strides_from(_, _, _, _, _, _, _)
c_strides_from(b, s, end, lo, hi, prod, acc) ==
    IF lo > hi THEN Some(acc)
    ELSE LET dim == IF end = "next" THEN s[lo] ELSE s[hi]
             p == plain_usize(b, prod * dim)
         IN  IF p.tag = "Panic" THEN Panic
             ELSE c_strides_from(b, s, end,
                                 IF end = "next" THEN lo + 1 ELSE lo,
                                 IF end = "next" THEN hi ELSE hi - 1,
                                 p.val, Append(acc, prod))

c_strides(b, s, end) == c_strides_from(b, s, end, 1, Len(s), 1, <<>>)

\* NStrides::is_c_order: self.is_sorted_by(|a, b| a >= b)
is_c_order(st) == \A i \in 1..(Len(st) - 1) : st[i] >= st[i + 1]

\* NStrides::is_f_order: self.is_sorted()
is_f_order(st) == \A i \in 1..(Len(st) - 1) : st[i] <= st[i + 1]

----------------------------------------------------------------------------
(* NShape: arithmetic with a scalar *)

\* A loop `for o in shape.iter_mut() { *o = f(*o) }` whose step is a plain
\* usize operation with the mathematical result step[i] on axis i
RECURSIVE each_axis(_, _, _, _)
each_axis(b, step, i, acc) ==
    IF i > Len(step) THEN Some(acc)
    ELSE LET v == plain_usize(b, step[i])
         IN  IF v.tag = "Panic" THEN Panic
             ELSE each_axis(b, step, i + 1, Append(acc, v.val))

\* AddAssign<usize> for NShape: *o += rhs
NShape_add_assign(b, s, rhs) ==
    each_axis(b, [i \in 1..Len(s) |-> s[i] + rhs], 1, <<>>)

\* Add<usize> for NShape: output = self.clone(); output += rhs
NShape_add(b, s, rhs) == NShape_add_assign(b, s, rhs)

\* Mul<usize> for NShape: *o = *o * rhs on a clone
NShape_mul(b, s, rhs) ==
    each_axis(b, [i \in 1..Len(s) |-> s[i] * rhs], 1, <<>>)

\* MulAssign<usize> for NShape: the loop body is `*o += rhs`
NShape_mul_assign(b, s, rhs) ==
    each_axis(b, [i \in 1..Len(s) |-> s[i] + rhs], 1, <<>>)

----------------------------------------------------------------------------
(* NLayout: indexing *)

\* NLayout::index adding the coordinates alone: offset += index[idx] as isize
RECURSIVE NLayout_index_unstrided(_, _, _, _, _)
NLayout_index_unstrided(b, index, st, idx, offset) ==
    IF idx > Len(index) THEN Some(offset)
    ELSE LET o == plain_isize(b, offset + as_isize(index[idx]))
         IN  IF o.tag = "Panic" THEN Panic
             ELSE NLayout_index_unstrided(b, index, st, idx + 1, o.val)

\* NLayout::index: for idx in 0..N { offset += (index[idx] as isize) * self.strides[idx] }
RECURSIVE NLayout_index(_, _, _, _, _)
NLayout_index(b, index, st, idx, offset) ==
    IF idx > Len(index) THEN Some(offset)
    ELSE LET t == plain_isize(b, as_isize(index[idx]) * st[idx])
         IN  IF t.tag = "Panic" THEN Panic
             ELSE LET o == plain_isize(b, offset + t.val)
                  IN  IF o.tag = "Panic" THEN Panic
                      ELSE NLayout_index(b, index, st, idx + 1, o.val)

----------------------------------------------------------------------------
(* Broadcasting *)

\* The Broadcast Resolver, dimension::broadcast::co_broadcast: out starts as
\* the longer shape, and the shorter shape s2 is merged into its trailing
\* axes from axis k on.
RECURSIVE co_broadcast_merge(_, _, _, _)
co_broadcast_merge(o, s2, k, i) ==
    IF i > Len(s2) THEN Ok(o)
    ELSE IF o[k + i] = s2[i] THEN co_broadcast_merge(o, s2, k, i + 1)
    ELSE IF o[k + i] = 1
         THEN co_broadcast_merge([o EXCEPT ![k + i] = s2[i]], s2, k, i + 1)
    ELSE IF s2[i] # 1 THEN Err("IncompatibleShapes", k + i - 1)
    ELSE co_broadcast_merge(o, s2, k, i + 1)

co_broadcast(s1, s2) ==
    IF Len(s1) < Len(s2)
    THEN co_broadcast_merge(s2, s1, Len(s2) - Len(s1), 1)
    ELSE co_broadcast_merge(s1, s2, Len(s1) - Len(s2), 1)

\* A view: a shape and the strides it is read with.
View(sh, st) == [tag |-> "Some", shape |-> sh, strides |-> st]
NoView == [tag |-> "None", shape |-> <<>>, strides |-> <<>>]
PanicView == [tag |-> "Panic", shape |-> <<>>, strides |-> <<>>]

\* The broadcast view of an array (shape from, strides st) against the shape
\* to: trailing axes are aligned; an axis of equal length keeps its stride,
\* an axis stretched from length 1 and an added leading axis get stride 0.
broadcast(from, st, to) ==
    LET k == Len(to) - Len(from)
    IN  IF k < 0 THEN NoView
        ELSE IF \E j \in 1..Len(from) : to[k + j] # from[j] /\ from[j] # 1
             THEN NoView
        ELSE View(to, [i \in 1..Len(to) |->
                        IF i <= k THEN 0
                        ELSE IF to[i] = from[i - k] THEN st[i - k]
                        ELSE 0])

\* Row-major strides of a shape, as a view made from a shape alone gets them.
RECURSIVE row_major_from(_, _)
row_major_from(sh, i) ==
    IF i >= Len(sh) THEN 1 ELSE sh[i + 1] * row_major_from(sh, i + 1)

RECURSIVE shape_product(_, _)
shape_product(sh, i) == IF i > Len(sh) THEN 1 ELSE sh[i] * shape_product(sh, i + 1)

\* ArrayView::from_shape(dim, xs): a view of the slice xs of length n with
\* the shape dim and the default strides, an error if the slice is too short.
from_shape(dim, n) ==
    IF shape_product(dim, 1) > n THEN Err("OutOfBounds", 0)
    ELSE Ok([i \in 1..Len(dim) |-> row_major_from(dim, i)])

OperandKinds == {"Scalar", "Array", "Slice"}

\* <A as Broadcastable<A, false>>::maybe_broadcast: the view has the shape
\* asked for and E::Dim::zeros(ndim) as its strides.
Scalar_maybe_broadcast(to) == View(to, [i \in 1..Len(to) |-> 0])

\* <ArrayRef<A, D> as Broadcastable<A, true>>::maybe_broadcast and
\* <ArrayBase<S, D> as Broadcastable<A, true>>::maybe_broadcast
Array_maybe_broadcast(from, st, to) == broadcast(from, st, to)

\* <Slice as Broadcastable<A, true>>::maybe_broadcast for a slice of length
\* n: the slice is broadcast as a one-dimensional view, and the view that is
\* returned is made anew from the broadcast view's raw_dim() and the slice.
Slice_maybe_broadcast(n, to) ==
    LET v == broadcast(<<n>>, <<1>>, to)
    IN  IF v.tag = "None" THEN NoView
        ELSE LET r == from_shape(v.shape, n)
             IN  IF r.tag = "Ok" THEN View(v.shape, r.val) ELSE PanicView

\* maybe_broadcast as dispatched on the operand
maybe_broadcast(k, from, st, to) ==
    CASE k = "Scalar" -> Scalar_maybe_broadcast(to)
      [] k = "Slice" -> Slice_maybe_broadcast(from[1], to)
      [] OTHER -> Array_maybe_broadcast(from, st, to)

\* Broadcastable::broadcast_dim: Ix0() for an element, raw_dim() for an
\* array, Ix1(len) for a slice
broadcast_dim(k, from) == IF k = "Scalar" THEN <<>> ELSE from

\* The resolution handed self's shape for both operands:
\* co_broadcast(&self.raw_dim(), &self.raw_dim())
singles_co_broadcast_self(self_dim, k, from) == co_broadcast(self_dim, self_dim)

\* The shape that a function made by impl_broadcast_singles resolves for
\* self and its argument: co_broadcast(&self.raw_dim(), &arg.broadcast_dim())
singles_co_broadcast(self_dim, k, from) ==
    co_broadcast(self_dim, broadcast_dim(k, from))

----------------------------------------------------------------------------
(* Dimensionalities: NDim<N> and DDyn, and the trait impls over them *)

NDim(n) == [tag |-> "NDim", val |-> n]
DDyn == [tag |-> "DDyn", val |-> 0]

\* No impl of the trait for the pair: the projection does not resolve.
NoImpl == [tag |-> "NoImpl", val |-> 0]

\* The const parameters N of NDim<N> that the generic impls are looked up at
NDimParams == 0..13

\* The types that implement Dimensionality: D1, impl_dimensionality!(2..11),
\* NDim<12> and DDyn
Dimensionality ==
    {NDim(1)} \cup {NDim(d) : d \in {2, 3, 4, 5, 6, 7, 8, 9, 10, 11}}
    \cup {NDim(12)} \cup {DDyn}

\* Dimensionality::Smaller
Smaller(d) ==
    CASE d = DDyn -> DDyn
      [] d = NDim(1) -> NDim(1)
      [] d = NDim(12) -> NDim(11)
      [] OTHER -> NDim(d.val - 1)

\* Dimensionality::Larger
Larger(d) ==
    CASE d = DDyn -> DDyn
      [] d = NDim(1) -> NDim(2)
      [] d = NDim(12) -> DDyn
      [] OTHER -> NDim(d.val + 1)

\* impl_add! with every Output an NDim<{$left + $right}>
impl_add_no_ceiling(left, right, rightd) ==
    {<<NDim(left), NDim(r), NDim(left + r)>> : r \in right \cup rightd}

\* impl_add!: the impls <<Self, D, Output>> of DAdd<D> for NDim<$left>
impl_add(left, right, rightd) ==
    {<<NDim(left), NDim(r), NDim(left + r)>> : r \in right}
    \cup {<<NDim(left), NDim(r), DDyn>> : r \in rightd}

\* Every impl of DAdd
DAdd_impls ==
    impl_add(0, {1, 2, 3, 4, 5, 6, 7, 8, 9, 10, 11, 12}, {})
    \cup impl_add(1, {1, 2, 3, 4, 5, 6, 7, 8, 9, 10, 11}, {12})
    \cup impl_add(2, {1, 2, 3, 4, 5, 6, 7, 8, 9, 10}, {11, 12})
    \cup impl_add(3, {1, 2, 3, 4, 5, 6, 7, 8, 9}, {10, 11, 12})
    \cup impl_add(4, {1, 2, 3, 4, 5, 6, 7, 8}, {9, 10, 11, 12})
    \cup impl_add(5, {1, 2, 3, 4, 5, 6, 7}, {8, 9, 10, 11, 12})
    \cup impl_add(6, {1, 2, 3, 4, 5, 6}, {7, 8, 9, 10, 11, 12})
    \cup impl_add(7, {1, 2, 3, 4, 5}, {6, 7, 8, 9, 10, 11, 12})
    \cup impl_add(8, {1, 2, 3, 4}, {5, 6, 7, 8, 9, 10, 11, 12})
    \cup impl_add(9, {1, 2, 3}, {4, 5, 6, 7, 8, 9, 10, 11, 12})
    \cup impl_add(10, {1, 2}, {3, 4, 5, 6, 7, 8, 9, 10, 11, 12})
    \cup impl_add(11, {1}, {2, 3, 4, 5, 6, 7, 8, 9, 10, 11, 12})
    \cup impl_add(12, {}, {1, 2, 3, 4, 5, 6, 7, 8, 9, 10, 11, 12})
    \cup {<<DDyn, DDyn, DDyn>>}
    \cup {<<DDyn, NDim(n), DDyn>> : n \in NDimParams}
    \cup {<<NDim(n), DDyn, DDyn>> : n \in NDimParams}

\* impl_max! with `type Output = NDim<$target>` for the uppers as well
RECURSIVE impl_max_upper_target(_, _, _)
impl_max_upper_target(lower, target, upper) ==
    LET lows == {<<NDim(target), NDim(l), NDim(target)>> : l \in lower}
        ups == {<<NDim(target), NDim(upper[i]), NDim(target)>> :
                    i \in 1..Len(upper)}
    IN  IF upper = <<>> THEN lows
        ELSE lows \cup ups
             \cup impl_max_upper_target(lower \cup {target}, Head(upper), Tail(upper))

\* impl_max! with `type Output = NDim<$lower>` for the lowers
RECURSIVE impl_max_lower_out(_, _, _)
impl_max_lower_out(lower, target, upper) ==
    LET lows == {<<NDim(target), NDim(l), NDim(l)>> : l \in lower}
        ups == {<<NDim(target), NDim(upper[i]), NDim(upper[i])>> :
                    i \in 1..Len(upper)}
    IN  IF upper = <<>> THEN lows
        ELSE lows \cup ups
             \cup impl_max_lower_out(lower \cup {target}, Head(upper), Tail(upper))

\* impl_max!: the impls <<Self, D, Output>> of DMax<D> for NDim<$target>,
\* with the lowers before `target:` and the uppers after it; every arm
\* (base case, general case, helper syntax) emits its impls and recurses
\* with the target moved to the lowers and the first upper as the target.
RECURSIVE impl_max(_, _, _)
impl_max(lower, target, upper) ==
    LET lows == {<<NDim(target), NDim(l), NDim(target)>> : l \in lower}
        ups == {<<NDim(target), NDim(upper[i]), NDim(upper[i])>> :
                    i \in 1..Len(upper)}
    IN  IF upper = <<>> THEN lows
        ELSE lows \cup ups
             \cup impl_max(lower \cup {target}, Head(upper), Tail(upper))

\* Every impl of DMax
DMax_impls ==
    impl_max({}, 1, <<2, 3, 4, 5, 6, 7, 8, 9, 10, 11, 12>>)
    \cup {<<d, d, d>> : d \in Dimensionality \ {DDyn}}
    \cup {<<DDyn, DDyn, DDyn>>}
    \cup {<<DDyn, NDim(n), DDyn>> : n \in NDimParams}
    \cup {<<NDim(n), DDyn, DDyn>> : n \in NDimParams}

\* <l as Trait<r>>::Output among the impls of the trait
Output(impls, l, r) ==
    LET outs == {t[3] : t \in {u \in impls : u[1] = l /\ u[2] = r}}
    IN  IF outs = {} THEN NoImpl ELSE CHOOSE o \in outs : TRUE

\* <l as DAdd<r>>::Output
DAdd(l, r) == Output(DAdd_impls, l, r)

\* <l as DMax<r>>::Output
DMax(l, r) == Output(DMax_impls, l, r)

----------------------------------------------------------------------------
(* Axes: the iterator over the axes of a layout *)

\* AxisDescription { axis, len, stride }
AxisDescription(a, l, s) == [axis |-> a, len |-> l, stride |-> s]

\* axes_of(layout): start is 0 and end is layout.ndim()
axes_of(sh, st) == [start |-> 0, end |-> Len(sh)]

\* Axes::next with the axis named after the increment: Axis(self.start)
Axes_next_axis_late(it, sh, st) ==
    IF it.start < it.end
    THEN [tag |-> "Some",
          item |-> AxisDescription(it.start + 1, sh[it.start + 1], st[it.start + 1]),
          it |-> [it EXCEPT !.start = it.start + 1]]
    ELSE [tag |-> "None", item |-> AxisDescription(0, 0, 0), it |-> it]

\* Axes::next: i = self.start.post_inc(); the length is read from the
\* iterator's shape (`self.dim[i]`) and the stride from its strides; axis i
\* of the source is entry i + 1 of the sequences here.
Axes_next(it, sh, st) ==
    IF it.start < it.end
    THEN [tag |-> "Some",
          item |-> AxisDescription(it.start, sh[it.start + 1], st[it.start + 1]),
          it |-> [it EXCEPT !.start = it.start + 1]]
    ELSE [tag |-> "None", item |-> AxisDescription(0, 0, 0), it |-> it]

\* Axes::next_back stepping back whenever end is positive
Axes_next_back_unguarded(it, sh, st) ==
    IF 0 < it.end
    THEN [tag |-> "Some",
          item |-> AxisDescription(it.end - 1, sh[it.end], st[it.end]),
          it |-> [it EXCEPT !.end = it.end - 1]]
    ELSE [tag |-> "None", item |-> AxisDescription(0, 0, 0), it |-> it]

\* Axes::next_back: i = self.end.pre_dec()
Axes_next_back(it, sh, st) ==
    IF it.start < it.end
    THEN [tag |-> "Some",
          item |-> AxisDescription(it.end - 1, sh[it.end], st[it.end]),
          it |-> [it EXCEPT !.end = it.end - 1]]
    ELSE [tag |-> "None", item |-> AxisDescription(0, 0, 0), it |-> it]

\* Axes::fold over the range 0..self.end
Axes_fold_from_zero(it, sh, st) ==
    [k \in 1..Max(it.end, 0) |-> AxisDescription(k - 1, sh[k], st[k])]

\* Axes::fold: (self.start..self.end).map(|i| AxisDescription { .. }).fold(init, f);
\* the value is the sequence of descriptions handed to f, in order
Axes_fold(it, sh, st) ==
    [k \in 1..Max(it.end - it.start, 0) |->
        AxisDescription(it.start + k - 1, sh[it.start + k], st[it.start + k])]

\* Iterator::max_by_key(|ax| ax.len) over the descriptions items: the last
\* one of those with the greatest length
RECURSIVE max_by_key_len(_, _, _)
max_by_key_len(items, i, best) ==
    IF i > Len(items) THEN best
    ELSE max_by_key_len(items, i + 1,
                        IF best.tag = "None" \/ items[i].len >= best.val.len
                        THEN Some(items[i]) ELSE best)

\* Axes::size_hint: len = self.end - self.start, returned as (len, Some(len));
\* the subtraction is a plain one on usize
Axes_size_hint(b, it) ==
    IF it.start <= it.end THEN Some(it.end - it.start)
    ELSE IF b = "debug" THEN Panic ELSE Some((it.end - it.start) % Modulus)

----------------------------------------------------------------------------
(* LayoutBitset: the flags of a layout classification, a u32 *)

\* LayoutBitset::CORDER, FORDER, CPREFER, FPREFER
CORDER == 1
FORDER == 2
CPREFER == 4
FPREFER == 8

\* `&` and `|` on the bits of two unsigned numbers
RECURSIVE bitand(_, _)
bitand(x, y) ==
    IF x = 0 \/ y = 0 THEN 0
    ELSE (x % 2) * (y % 2) + 2 * bitand(x \div 2, y \div 2)

RECURSIVE bitor(_, _)
bitor(x, y) ==
    IF x = 0 THEN y
    ELSE IF y = 0 THEN x
    ELSE Max(x % 2, y % 2) + 2 * bitor(x \div 2, y \div 2)

\* LayoutBitset::is: self.0 & flag != 0
LayoutBitset_is(l, flag) == bitand(l, flag) # 0

\* LayoutBitset::intersect: self.0 & other.0
LayoutBitset_intersect(l, other) == bitand(l, other)

\* LayoutBitset::also: self.0 | other.0
LayoutBitset_also(l, other) == bitor(l, other)

\* LayoutBitset::c, f, cpref, fpref, none
LayoutBitset_c == bitor(CORDER, CPREFER)
LayoutBitset_f == bitor(FORDER, FPREFER)
\* LayoutBitset::cpref with the exact flag added
LayoutBitset_cpref_exact == bitor(CORDER, CPREFER)
LayoutBitset_cpref == CPREFER
LayoutBitset_fpref == FPREFER
LayoutBitset_none == 0

\* LayoutBitset::one_dimensional: c().also(f())
LayoutBitset_one_dimensional == LayoutBitset_also(LayoutBitset_c, LayoutBitset_f)

\* `b as i32`
as_i32(b) == IF b THEN 1 ELSE 0

\* LayoutBitset::tendency counting the exact flags alone
LayoutBitset_tendency_exact(l) ==
    as_i32(LayoutBitset_is(l, CORDER)) - as_i32(LayoutBitset_is(l, FORDER))

\* LayoutBitset::tendency
LayoutBitset_tendency(l) ==
    (as_i32(LayoutBitset_is(l, CORDER)) - as_i32(LayoutBitset_is(l, FORDER)))
    + (as_i32(LayoutBitset_is(l, CPREFER)) - as_i32(LayoutBitset_is(l, FPREFER)))

----------------------------------------------------------------------------
(* Views carved from a two-dimensional array, and their classification *)

\* Strides of a freshly made array: row-major, or column-major after .f()
RECURSIVE column_major_from(_, _)
column_major_from(sh, i) ==
    IF i <= 1 THEN 1 ELSE sh[i - 1] * column_major_from(sh, i - 1)

zeros(sh, order) ==
    [shape |-> sh,
     strides |-> [i \in 1..Len(sh) |->
                    IF order = "C" THEN row_major_from(sh, i)
                    ELSE column_major_from(sh, i)]]

\* A slice argument start..end;step, with end absent for an open range
Slice(start, end, step) == [start |-> start, end |-> end, step |-> step]

\* Slicing one axis: the axis keeps every step-th position of start..end, and
\* its stride is multiplied by the step; an axis left with at most one
\* position gets stride 0.
do_slice(len, stride, sl) ==
    LET end == IF sl.end.tag = "Some" THEN sl.end.val ELSE len
        m == end - sl.start
        d == (m + sl.step - 1) \div sl.step
    IN  [len |-> d, stride |-> IF d <= 1 THEN 0 ELSE stride * sl.step]

slice(a, sls) ==
    [shape |-> [i \in 1..Len(a.shape) |-> do_slice(a.shape[i], a.strides[i], sls[i]).len],
     strides |-> [i \in 1..Len(a.shape) |-> do_slice(a.shape[i], a.strides[i], sls[i]).stride]]

\* Exactly row-major contiguous: going from the last axis to the first, every
\* axis whose length is not 1 has the stride of the elements after it; an
\* array with no elements counts as contiguous.
RECURSIVE is_layout_c_from(_, _, _, _)
is_layout_c_from(sh, st, i, contig) ==
    IF i = 0 THEN TRUE
    ELSE IF sh[i] = 1 THEN is_layout_c_from(sh, st, i - 1, contig)
    ELSE IF st[i] # contig THEN FALSE
    ELSE is_layout_c_from(sh, st, i - 1, contig * sh[i])

is_layout_c(sh, st) ==
    IF \E i \in 1..Len(sh) : sh[i] = 0 THEN TRUE
    ELSE is_layout_c_from(sh, st, Len(sh), 1)

\* Exactly column-major contiguous: row-major with the axes reversed
is_layout_f(sh, st) ==
    is_layout_c([i \in 1..Len(sh) |-> sh[Len(sh) + 1 - i]],
                [i \in 1..Len(sh) |-> st[Len(sh) + 1 - i]])

\* The classification of a view: effectively one-dimensional views have all
\* four flags, contiguous ones the exact and the preferred flag of their
\* order, and others the preferred flag of the order whose innermost axis
\* has stride 1, if any.
array_layout(sh, st) ==
    LET n == Len(sh)
    IN  IF is_layout_c(sh, st)
        THEN IF n <= 1 \/ Cardinality({i \in 1..n : sh[i] > 1}) <= 1
             THEN LayoutBitset_one_dimensional
             ELSE LayoutBitset_c
        ELSE IF n > 1 /\ is_layout_f(sh, st) THEN LayoutBitset_f
        ELSE IF n > 1
             THEN IF sh[1] > 1 /\ st[1] = 1 THEN LayoutBitset_fpref
                  ELSE IF sh[n] > 1 /\ st[n] = 1 THEN LayoutBitset_cpref
                  ELSE LayoutBitset_none
        ELSE LayoutBitset_none

----------------------------------------------------------------------------
(* Inputs *)

SeqsUpTo(S, n) == UNION {[1..k -> S] : k \in 0..n}

AxisLens == {0, 1, 2, 3, 4, ISIZE_MAX, ISIZE_MAX + 1, USIZE_MAX}
Shapes == SeqsUpTo(AxisLens, MaxRank)
ElemSizes == {0, 1, 2, 8}

\* Shapes handed to the constructors of Checked
CheckedLens == {0, 1, 2, ISIZE_MAX, ISIZE_MAX + 1}
CheckedShapes == SeqsUpTo(CheckedLens, MaxRank)

\* Layouts: a shape and strides of equal rank.
LayoutLens == {0, 2, 3, ISIZE_MAX + 1}
StrideVals == {-1, 3, 6, ISIZE_MAX}
Layouts(n) ==
    UNION {[shape : [1..k -> LayoutLens], strides : [1..k -> StrideVals]] : k \in 0..n}
ByteStrideVals == {-1, 0, 1, 3, 6, ISIZE_MAX}
ByteLayouts(n) ==
    UNION {[shape : [1..k -> LayoutLens], strides : [1..k -> ByteStrideVals]] : k \in 0..n}
ByteSizes == {1, 2}

\* Arguments of try_full and try_index_mut
TryFullNdims == 0..(CAP + 1)
Indexes == 0..MaxRank

\* Strides given as a literal
OrderVals == {-1, 0, 1, 3, ISIZE_MAX}
StridesLiterals == SeqsUpTo(OrderVals, MaxRank)

\* Operands of broadcasting: an element, an array in standard layout, a slice
BroadcastLens == {0, 1, 2, 3, 4, 5}
BroadcastShapes == SeqsUpTo(BroadcastLens, MaxBroadcastRank)
Operands ==
    {[kind |-> "Scalar", shape |-> <<>>, strides |-> <<>>]}
    \cup {[kind |-> "Slice", shape |-> <<n>>, strides |-> <<1>>] : n \in BroadcastLens}
    \cup {[kind |-> "Array", shape |-> sh,
           strides |-> [i \in 1..Len(sh) |-> row_major_from(sh, i)]] :
          sh \in BroadcastShapes}

\* Rank descriptors: the fixed ranks 0..12 and the dynamic marker
RankDescriptors == {NDim(n) : n \in 0..12} \cup {DDyn}

\* Shapes and strides converted between fixed and dynamic rank
DynLens == {0, 2}
DynShapes == SeqsUpTo(DynLens, MaxDynRank)
DynStrideVals == {-1, 3}
DynStrides == SeqsUpTo(DynStrideVals, MaxDynRank)
ConstLens == {2, 3}
ConstMatrixShapes == [1..2 -> ConstLens]

\* Values that try_full fills a shape with
FillValues == {0, 2, 3}

\* Layouts whose axes are iterated
AxesLens == {2, 3}
AxesStrides == {-1, 3}
\* Array3::<f32>::zeros((3, 5, 4)), the array of the example of Axes
ExampleLayout == [shape |-> <<3, 5, 4>>, strides |-> <<20, 4, 1>>]
AxesLayouts ==
    UNION {[shape : [1..k -> AxesLens], strides : [1..k -> AxesStrides]] :
            k \in 0..MaxLayoutRank}
    \cup {ExampleLayout}

\* Layout classifications: every combination of the four flags
RECURSIVE FlagSum(_)
FlagSum(S) == IF S = {} THEN 0 ELSE LET f == CHOOSE f \in S : TRUE IN f + FlagSum(S \ {f})
Flags == {CORDER, FORDER, CPREFER, FPREFER}
LayoutBitsets == {FlagSum(S) : S \in SUBSET Flags}
BitsetBuilders == {"c", "f", "cpref", "fpref", "none", "one_dimensional"}

\* Two-dimensional arrays and the slices taken of them: `..`, `..1`, `1..`
\* and `..;2`
ViewLens == {1, 2, 3, 5}
Orders == {"C", "F"}
Full == Slice(0, None, 1)
First == Slice(0, Some(1), 1)
Rest == Slice(1, None, 1)
EveryOther == Slice(0, None, 2)
Slices == {Full, First, Rest, EveryOther}

\* Shapes whose strides are generated, and the end the items are taken from
CStridesLens == {0, 1, 2, 3, 4}
CStridesShapes == SeqsUpTo(CStridesLens, MaxRank)
IteratorEnds == {"next", "next_back"}

\* Shapes of fixed rank that are indexed, and the coordinates of an index
IndexLens == {1, 2, 3, ISIZE_MAX}
IndexShapes == UNION {[1..k -> IndexLens] : k \in 1..MaxRank}
IndexCoords == {0, 1, 2, ISIZE_MAX - 1}

\* Shapes and scalars of the scalar operators of NShape
ScalarLens == {0, 2, 3, USIZE_MAX}
ScalarShapes == SeqsUpTo(ScalarLens, MaxRank)
Scalars == {0, 1, 2, 3}
ScalarOps == {"add", "add_assign", "mul", "mul_assign"}

\* The ways a DShape or a DStrides is made: From a slice, try_full(ndim,
\* value) (a DShape alone), Default and Zero
DynKinds == {"DShape", "DStrides"}
Made(ctor, items) == [ctor |-> ctor, items |-> items]
DynMade(k) ==
    {Made("from", sl) : sl \in IF k = "DShape" THEN DynShapes ELSE DynStrides}
    \cup (IF k = "DShape"
          THEN {Made("try_full", <<n, v>>) : n \in TryFullNdims, v \in DynLens}
          ELSE {})
    \cup {Made("default", <<>>), Made("zero", <<>>)}

----------------------------------------------------------------------------
(* Operations *)

Init ==
    /\ build \in Builds
    /\ pc = "idle"
    /\ made = "none"
    /\ op = "none"
    /\ kind = "Default"
    /\ shape = <<>>
    /\ strides = <<>>
    /\ esize = 0
    /\ arg = <<>>
    /\ ret = Unit
    /\ out = <<>>
    /\ hist = <<>>

\* shape.size_checked()
SizeChecked ==
    /\ pc = "idle"
    /\ \E k \in ShapeKinds, s \in Shapes :
        /\ kind' = k
        /\ shape' = s
        /\ ret' = size_checked(k, s)
    /\ op' = "size_checked"
    /\ pc' = "done"
    /\ UNCHANGED <<hist, build, made, strides, esize, arg, out>>

\* shape.size_bytes_checked::<T>()
SizeBytesChecked ==
    /\ pc = "idle"
    /\ \E k \in ShapeKinds, s \in Shapes, sz \in ElemSizes :
        /\ kind' = k
        /\ shape' = s
        /\ esize' = sz
        /\ ret' = size_bytes_checked(k, s, sz)
    /\ op' = "size_bytes_checked"
    /\ pc' = "done"
    /\ UNCHANGED <<hist, build, made, strides, arg, out>>

\* offset_range_checked(&shape, &strides), as NLayout and DynLayout call it
OffsetRangeChecked ==
    /\ pc = "idle"
    /\ \E k \in ShapeKinds, l \in Layouts(MaxLayoutRank) :
        /\ kind' = k
        /\ shape' = l.shape
        /\ strides' = l.strides
        /\ ret' = offset_range_checked(build, k, l.shape, l.strides)
    /\ op' = "offset_range_checked"
    /\ pc' = "done"
    /\ UNCHANGED <<hist, build, made, esize, arg, out>>

\* layout.offset_range_bytes_checked::<T>()
OffsetRangeBytesChecked ==
    /\ pc = "idle"
    /\ \E k \in ShapeKinds, l \in ByteLayouts(MaxBytesRank), sz \in ByteSizes :
        /\ kind' = k
        /\ shape' = l.shape
        /\ strides' = l.strides
        /\ esize' = sz
        /\ ret' = layout_offset_range_bytes_checked(build, k, l.shape, l.strides, sz)
    /\ op' = "offset_range_bytes_checked"
    /\ pc' = "done"
    /\ UNCHANGED <<hist, build, made, arg, out>>

\* shape.into_checked()
IntoChecked ==
    /\ pc = "idle"
    /\ \E k \in ShapeKinds, s \in CheckedShapes :
        /\ kind' = k
        /\ shape' = s
        /\ ret' = IF into_checked(k, s).tag = "Some" THEN Some(0) ELSE None
    /\ op' = "into_checked"
    /\ made' = "into_checked"
    /\ pc' = IF ret'.tag = "Some" THEN "Checked" ELSE "done"
    /\ UNCHANGED <<hist, build, strides, esize, arg, out>>

\* shape.into_checked_for::<T>()
IntoCheckedFor ==
    /\ pc = "idle"
    /\ \E k \in ShapeKinds, s \in CheckedShapes, sz \in ElemSizes :
        /\ kind' = k
        /\ shape' = s
        /\ esize' = sz
        /\ ret' = IF into_checked_for(k, s, sz).tag = "Some" THEN Some(0) ELSE None
    /\ op' = "into_checked_for"
    /\ made' = "into_checked_for"
    /\ pc' = IF ret'.tag = "Some" THEN "Checked" ELSE "done"
    /\ UNCHANGED <<hist, build, strides, arg, out>>

\* Checked::<T>::try_full(ndim, value), T = NShape<N> or DShape
CheckedTryFull ==
    /\ pc = "idle"
    /\ \E k \in {"NShape", "DShape"}, N \in 0..MaxRank,
          ndim \in TryFullNdims, value \in AxisLens :
        LET r == Checked_try_full(k, N, ndim, value)
        IN  /\ kind' = k
            /\ arg' = <<ndim, value>>
            /\ ret' = IF r.tag = "Ok" THEN Ok(0) ELSE r
            /\ shape' = IF r.tag = "Ok" THEN r.val ELSE <<>>
    /\ op' = "try_full"
    /\ made' = "try_full"
    /\ pc' = IF ret'.tag = "Ok" THEN "Checked" ELSE "done"
    /\ UNCHANGED <<hist, build, strides, esize, out>>

\* checked.try_index_mut(index); out is the axes of the shape after the call.
CheckedTryIndexMut ==
    /\ pc = "Checked"
    /\ \E index \in Indexes :
        /\ arg' = <<index>>
        /\ ret' = Checked_try_index_mut(shape, index)
    /\ op' = "try_index_mut"
    /\ out' = shape
    /\ UNCHANGED <<hist, build, pc, made, kind, shape, strides, esize>>

\* checked.size()
CheckedSize ==
    /\ pc = "Checked"
    /\ ret' = CheckedShape_size(shape)
    /\ op' = "size"
    /\ pc' = IF ret'.tag = "Panic" THEN "panicked" ELSE "Checked"
    /\ arg' = <<>>
    /\ out' = <<>>
    /\ UNCHANGED <<hist, build, made, kind, shape, strides, esize>>

\* checked.iter_isize().collect()
CheckedIterIsize ==
    /\ pc = "Checked"
    /\ out' = CheckedShape_iter_isize(shape)
    /\ ret' = Unit
    /\ op' = "iter_isize"
    /\ arg' = <<>>
    /\ UNCHANGED <<hist, build, pc, made, kind, shape, strides, esize>>

\* NStrides::default_c(shape)
DefaultC ==
    /\ pc = "idle"
    /\ \E s \in Shapes :
        LET r == default_c(build, s)
        IN  /\ shape' = s
            /\ strides' = IF r.tag = "Some" THEN r.val ELSE <<>>
            /\ ret' = IF r.tag = "Some" THEN Unit ELSE r
    /\ kind' = "NShape"
    /\ op' = "default_c"
    /\ made' = "default_c"
    /\ pc' = IF ret'.tag = "Panic" THEN "panicked" ELSE "NStrides"
    /\ UNCHANGED <<hist, build, esize, arg, out>>

\* NStrides::default_f(shape)
DefaultF ==
    /\ pc = "idle"
    /\ \E s \in Shapes :
        LET r == default_f(build, s)
        IN  /\ shape' = s
            /\ strides' = IF r.tag = "Some" THEN r.val ELSE <<>>
            /\ ret' = IF r.tag = "Some" THEN Unit ELSE r
    /\ kind' = "NShape"
    /\ op' = "default_f"
    /\ made' = "default_f"
    /\ pc' = IF ret'.tag = "Panic" THEN "panicked" ELSE "NStrides"
    /\ UNCHANGED <<hist, build, esize, arg, out>>

\* NStrides::from([isize; N])
StridesFrom ==
    /\ pc = "idle"
    /\ \E st \in StridesLiterals : strides' = st
    /\ ret' = Unit
    /\ op' = "from"
    /\ made' = "from"
    /\ pc' = "NStrides"
    /\ UNCHANGED <<hist, build, kind, shape, esize, arg, out>>

\* strides.is_c_order()
IsCOrder ==
    /\ pc = "NStrides"
    /\ ret' = Bool(is_c_order(strides))
    /\ op' = "is_c_order"
    /\ UNCHANGED <<hist, build, pc, made, kind, shape, strides, esize, arg, out>>

\* strides.is_f_order()
IsFOrder ==
    /\ pc = "NStrides"
    /\ ret' = Bool(is_f_order(strides))
    /\ op' = "is_f_order"
    /\ UNCHANGED <<hist, build, pc, made, kind, shape, strides, esize, arg, out>>

\* A function made by impl_broadcast_singles, called as self.f(&arg): the
\* common shape is resolved and unwrapped, then both operands are broadcast
\* to it and unwrapped, and the result is collected in that shape.
BroadcastSingles ==
    /\ pc = "idle"
    /\ \E sd \in BroadcastShapes, o \in Operands :
        LET r == singles_co_broadcast(sd, o.kind, o.shape)
            st == [i \in 1..Len(sd) |-> row_major_from(sd, i)]
            v1 == IF r.tag = "Ok" THEN broadcast(sd, st, r.val) ELSE NoView
            v2 == IF r.tag = "Ok"
                  THEN maybe_broadcast(o.kind, o.shape, o.strides, r.val)
                  ELSE NoView
        IN  /\ kind' = o.kind
            /\ shape' = sd
            /\ strides' = st
            /\ arg' = broadcast_dim(o.kind, o.shape)
            /\ ret' = IF r.tag = "Ok" THEN Ok(0) ELSE r
            /\ out' = IF r.tag = "Ok" THEN r.val ELSE <<>>
            /\ pc' = IF r.tag = "Ok" /\ v1.tag = "Some" /\ v2.tag = "Some"
                     THEN "done" ELSE "panicked"
    /\ op' = "broadcast_singles"
    /\ UNCHANGED <<hist, build, made, esize>>

\* operand.maybe_broadcast(shape)
MaybeBroadcast ==
    /\ pc = "idle"
    /\ \E o \in Operands, to \in BroadcastShapes :
        LET v == maybe_broadcast(o.kind, o.shape, o.strides, to)
        IN  /\ kind' = o.kind
            /\ shape' = o.shape
            /\ strides' = o.strides
            /\ arg' = to
            /\ ret' = [tag |-> v.tag, val |-> 0]
            /\ out' = IF v.tag = "Some" THEN <<v.shape, v.strides>> ELSE <<>>
            /\ pc' = IF v.tag = "Panic" THEN "panicked" ELSE "done"
    /\ op' = "maybe_broadcast"
    /\ UNCHANGED <<hist, build, made, esize>>

\* operand.broadcast_dim()
BroadcastDim ==
    /\ pc = "idle"
    /\ \E o \in Operands :
        /\ kind' = o.kind
        /\ shape' = o.shape
        /\ strides' = o.strides
        /\ out' = broadcast_dim(o.kind, o.shape)
    /\ ret' = Unit
    /\ op' = "broadcast_dim"
    /\ pc' = "done"
    /\ UNCHANGED <<hist, build, made, esize, arg>>

\* <L as DMax<R>>::Output
DMaxOf ==
    /\ pc = "idle"
    /\ \E l \in RankDescriptors, r \in RankDescriptors :
        /\ arg' = <<l, r>>
        /\ ret' = DMax(l, r)
    /\ op' = "DMax"
    /\ pc' = "done"
    /\ UNCHANGED <<hist, build, made, kind, shape, strides, esize, out>>

\* <L as DAdd<R>>::Output
DAddOf ==
    /\ pc = "idle"
    /\ \E l \in RankDescriptors, r \in RankDescriptors :
        /\ arg' = <<l, r>>
        /\ ret' = DAdd(l, r)
    /\ op' = "DAdd"
    /\ pc' = "done"
    /\ UNCHANGED <<hist, build, made, kind, shape, strides, esize, out>>

\* <D as Dimensionality>::Larger
LargerOf ==
    /\ pc = "idle"
    /\ \E d \in Dimensionality :
        /\ arg' = <<d>>
        /\ ret' = Larger(d)
    /\ op' = "Larger"
    /\ pc' = "done"
    /\ UNCHANGED <<hist, build, made, kind, shape, strides, esize, out>>

\* <D as Dimensionality>::Smaller
SmallerOf ==
    /\ pc = "idle"
    /\ \E d \in Dimensionality :
        /\ arg' = <<d>>
        /\ ret' = Smaller(d)
    /\ op' = "Smaller"
    /\ pc' = "done"
    /\ UNCHANGED <<hist, build, made, kind, shape, strides, esize, out>>

\* shape.try_to_nshape::<N>()
TryToNShape ==
    /\ pc = "idle"
    /\ \E k \in {"NShape", "DShape", "ConstMatrixShape"}, N \in 0..MaxDynRank :
        \E s \in (IF k = "ConstMatrixShape" THEN ConstMatrixShapes ELSE DynShapes) :
            LET r == try_to_nshape(N, ndim_of(k, s), as_slice_of(k, s))
            IN  /\ kind' = k
                /\ shape' = s
                /\ arg' = <<N>>
                /\ ret' = IF r.tag = "Ok" THEN Ok(0) ELSE r
                /\ out' = IF r.tag = "Ok" THEN r.val ELSE <<>>
                /\ pc' = IF r.tag = "Panic" THEN "panicked" ELSE "done"
    /\ op' = "try_to_nshape"
    /\ UNCHANGED <<hist, build, made, strides, esize>>

\* nshape.to_dyn().try_to_nshape::<N>()
ToDynTryToNShape ==
    /\ pc = "idle"
    /\ \E s \in DynShapes, N \in 0..MaxDynRank :
        LET d == to_dyn(s)
            r == try_to_nshape(N, DynAxesRepr_ndim(d), DynAxesRepr_deref(d))
        IN  /\ shape' = s
            /\ arg' = <<N>>
            /\ ret' = IF r.tag = "Ok" THEN Ok(0) ELSE r
            /\ out' = IF r.tag = "Ok" THEN r.val ELSE <<>>
            /\ pc' = IF r.tag = "Panic" THEN "panicked" ELSE "done"
    /\ kind' = "NShape"
    /\ op' = "to_dyn_try_to_nshape"
    /\ UNCHANGED <<hist, build, made, strides, esize>>

\* strides.try_to_nstrides::<N>()
TryToNStrides ==
    /\ pc = "idle"
    /\ \E k \in {"NStrides", "DStrides"}, st \in DynStrides, N \in 0..MaxDynRank :
        LET r == try_to_nstrides(N, ndim_of(k, st), as_slice_of(k, st))
        IN  /\ kind' = k
            /\ strides' = st
            /\ arg' = <<N>>
            /\ ret' = IF r.tag = "Ok" THEN Ok(0) ELSE r
            /\ out' = IF r.tag = "Ok" THEN r.val ELSE <<>>
            /\ pc' = IF r.tag = "Panic" THEN "panicked" ELSE "done"
    /\ op' = "try_to_nstrides"
    /\ UNCHANGED <<hist, build, made, shape, esize>>

\* S::try_full(ndim, value) for S = NShape<N>, DShape, ConstMatrixShape<N, M>
TryFull ==
    /\ pc = "idle"
    /\ \E k \in {"NShape", "DShape", "ConstMatrixShape"},
          ndim \in TryFullNdims, value \in FillValues :
        \E tp \in (CASE k = "NShape" -> {<<N>> : N \in 1..MaxRank}
                     [] k = "ConstMatrixShape" -> ConstMatrixShapes
                     [] OTHER -> {<<>>}) :
            LET r == try_full(k, tp, ndim, value)
            IN  /\ kind' = k
                /\ arg' = <<ndim, value>> \o tp
                /\ ret' = IF r.tag = "Ok" THEN Ok(0) ELSE r
                /\ shape' = IF r.tag = "Ok" THEN r.val ELSE <<>>
    /\ op' = "try_full"
    /\ made' = "Shape::try_full"
    /\ pc' = "done"
    /\ UNCHANGED <<hist, build, strides, esize, out>>

\* shape.try_index_mut(index) on an NShape, a DShape or a ConstMatrixShape;
\* out is the axes of the shape after the call.
TryIndexMut ==
    /\ pc = "idle"
    /\ \E k \in {"NShape", "DShape", "ConstMatrixShape"}, index \in Indexes :
        \E s \in (IF k = "ConstMatrixShape" THEN ConstMatrixShapes
                  ELSE SeqsUpTo(ConstLens, MaxRank)) :
            /\ kind' = k
            /\ shape' = s
            /\ arg' = <<index>>
            /\ ret' = try_index_mut(k, s, index)
            /\ out' = s
    /\ op' = "try_index_mut"
    /\ made' = "Shape::try_index_mut"
    /\ pc' = IF ret'.tag = "Panic" THEN "panicked" ELSE "done"
    /\ UNCHANGED <<hist, build, strides, esize>>

\* axes_of(layout): arg holds the iterator's start and end, out the
\* descriptions it has yielded
AxesOf ==
    /\ pc = "idle"
    /\ \E l \in AxesLayouts :
        /\ shape' = l.shape
        /\ strides' = l.strides
        /\ arg' = <<axes_of(l.shape, l.strides).start, axes_of(l.shape, l.strides).end>>
    /\ out' = <<>>
    /\ hist' = <<>>
    /\ ret' = Unit
    /\ op' = "axes_of"
    /\ made' = "axes_of"
    /\ pc' = "Axes"
    /\ UNCHANGED <<build, kind, esize>>

\* axes.next(); an exhausted iterator is asked once more at most
AxesNext ==
    /\ pc = "Axes"
    /\ Len(hist) <= Len(shape)
    /\ LET r == Axes_next([start |-> arg[1], end |-> arg[2]], shape, strides)
       IN  /\ arg' = <<r.it.start, r.it.end>>
           /\ ret' = IF r.tag = "Some" THEN Some(r.item.axis) ELSE None
           /\ out' = IF r.tag = "Some" THEN Append(out, r.item) ELSE out
    /\ hist' = Append(hist, "next")
    /\ op' = "next"
    /\ UNCHANGED <<build, pc, made, kind, shape, strides, esize>>

\* axes.next_back()
AxesNextBack ==
    /\ pc = "Axes"
    /\ Len(hist) <= Len(shape)
    /\ LET r == Axes_next_back([start |-> arg[1], end |-> arg[2]], shape, strides)
       IN  /\ arg' = <<r.it.start, r.it.end>>
           /\ ret' = IF r.tag = "Some" THEN Some(r.item.axis) ELSE None
           /\ out' = IF r.tag = "Some" THEN Append(out, r.item) ELSE out
    /\ hist' = Append(hist, "next_back")
    /\ op' = "next_back"
    /\ UNCHANGED <<build, pc, made, kind, shape, strides, esize>>

\* axes.size_hint(), which reads the iterator and leaves it as it is; it is
\* observed as the last call on the iterator.  ret holds the lower bound,
\* which is also the upper one.
AxesSizeHint ==
    /\ pc = "Axes"
    /\ ret' = Axes_size_hint(build, [start |-> arg[1], end |-> arg[2]])
    /\ op' = "size_hint"
    /\ pc' = "hinted"
    /\ UNCHANGED <<hist, build, made, kind, shape, strides, esize, arg, out>>

\* LayoutBitset::c(), f(), cpref(), fpref(), none(), one_dimensional() and
\* tendency() of the value built
BitsetBuilder ==
    /\ pc = "idle"
    /\ \E name \in BitsetBuilders :
        LET l == CASE name = "c" -> LayoutBitset_c
                   [] name = "f" -> LayoutBitset_f
                   [] name = "cpref" -> LayoutBitset_cpref
                   [] name = "fpref" -> LayoutBitset_fpref
                   [] name = "none" -> LayoutBitset_none
                   [] OTHER -> LayoutBitset_one_dimensional
        IN  /\ made' = name
            /\ arg' = <<l>>
            /\ ret' = Some(LayoutBitset_tendency(l))
    /\ op' = "tendency"
    /\ pc' = "done"
    /\ UNCHANGED <<hist, build, kind, shape, strides, esize, out>>

\* layout.tendency()
Tendency ==
    /\ pc = "idle"
    /\ \E l \in LayoutBitsets :
        /\ arg' = <<l>>
        /\ ret' = Some(LayoutBitset_tendency(l))
    /\ made' = "LayoutBitset"
    /\ op' = "tendency"
    /\ pc' = "done"
    /\ UNCHANGED <<hist, build, kind, shape, strides, esize, out>>

\* a.intersect(b)
Intersect ==
    /\ pc = "idle"
    /\ \E a \in LayoutBitsets, b \in LayoutBitsets :
        /\ arg' = <<a, b>>
        /\ ret' = Some(LayoutBitset_intersect(a, b))
    /\ op' = "intersect"
    /\ pc' = "done"
    /\ UNCHANGED <<hist, build, made, kind, shape, strides, esize, out>>

\* a.also(b)
Also ==
    /\ pc = "idle"
    /\ \E a \in LayoutBitsets, b \in LayoutBitsets :
        /\ arg' = <<a, b>>
        /\ ret' = Some(LayoutBitset_also(a, b))
    /\ op' = "also"
    /\ pc' = "done"
    /\ UNCHANGED <<hist, build, made, kind, shape, strides, esize, out>>

\* M::zeros((r, c)) or M::zeros((r, c).f()), then a.slice(s![s0, s1]).layout():
\* arg holds r and c, out the two slice arguments
ViewLayout ==
    /\ pc = "idle"
    /\ \E r \in ViewLens, c \in ViewLens, o \in Orders, s0 \in Slices, s1 \in Slices :
        LET v == slice(zeros(<<r, c>>, o), <<s0, s1>>)
        IN  /\ arg' = <<r, c>>
            /\ made' = IF o = "C" THEN "zeros" ELSE "zeros.f"
            /\ out' = <<s0, s1>>
            /\ shape' = v.shape
            /\ strides' = v.strides
            /\ ret' = Some(array_layout(v.shape, v.strides))
    /\ op' = "layout"
    /\ pc' = "done"
    /\ UNCHANGED <<hist, build, kind, esize>>

\* c_strides(&checked), its items taken with next() alone or with
\* next_back() alone; out holds them in the order they are yielded
CStrides ==
    /\ pc = "idle"
    /\ \E s \in CStridesShapes, end \in IteratorEnds :
        /\ into_checked("NShape", s).tag = "Some"
        /\ LET r == c_strides(build, s, end)
           IN  /\ shape' = s
               /\ hist' = <<end>>
               /\ out' = IF r.tag = "Some" THEN r.val ELSE <<>>
               /\ ret' = IF r.tag = "Some" THEN Unit ELSE r
    /\ kind' = "NShape"
    /\ op' = "c_strides"
    /\ pc' = "done"
    /\ UNCHANGED <<build, made, strides, esize, arg>>

\* axes.max_by_key(|ax| ax.len), which folds the iterator in the state it
\* is in: out holds the descriptions the fold visits
AxesFold ==
    /\ pc = "Axes"
    /\ LET items == Axes_fold([start |-> arg[1], end |-> arg[2]], shape, strides)
       IN  /\ out' = items
           /\ ret' = max_by_key_len(items, 1, None)
    /\ op' = "fold"
    /\ pc' = "folded"
    /\ UNCHANGED <<hist, build, made, kind, shape, strides, esize, arg>>

\* NLayout { shape, strides: NStrides::default_c(shape) }.index(&index) for an
\* index within the shape; arg holds the index
NLayoutIndex ==
    /\ pc = "idle"
    /\ \E s \in IndexShapes :
        \E index \in [1..Len(s) -> IndexCoords] :
            /\ \A i \in 1..Len(s) : index[i] < s[i]
            /\ LET st == default_c(build, s)
               IN  /\ shape' = s
                   /\ arg' = index
                   /\ strides' = IF st.tag = "Some" THEN st.val ELSE <<>>
                   /\ ret' = IF st.tag = "Some"
                             THEN NLayout_index(build, index, st.val, 1, 0)
                             ELSE st
    /\ kind' = "NShape"
    /\ made' = "default_c"
    /\ op' = "index"
    /\ pc' = "done"
    /\ UNCHANGED <<hist, build, esize, out>>

\* s + k, s += k, s * k, s *= k for an NShape s and a usize k: arg holds k,
\* shape the operand before the operation and out the shape it gives
ScalarOp ==
    /\ pc = "idle"
    /\ \E s \in ScalarShapes, k \in Scalars, name \in ScalarOps :
        LET r == CASE name = "add" -> NShape_add(build, s, k)
                   [] name = "add_assign" -> NShape_add_assign(build, s, k)
                   [] name = "mul" -> NShape_mul(build, s, k)
                   [] OTHER -> NShape_mul_assign(build, s, k)
        IN  /\ shape' = s
            /\ arg' = <<k>>
            /\ op' = name
            /\ out' = IF r.tag = "Some" THEN r.val ELSE <<>>
            /\ ret' = IF r.tag = "Some" THEN Unit ELSE r
    /\ kind' = "NShape"
    /\ pc' = "done"
    /\ UNCHANGED <<hist, build, made, strides, esize>>

\* The value a constructor call gives
construct(k, c) ==
    CASE c.ctor = "from" -> DynAxesRepr_from(c.items)
      [] c.ctor = "try_full" -> DShape_try_full(c.items[1], c.items[2]).val
      [] c.ctor = "default" -> DynAxesRepr_default
      [] OTHER -> IF k = "DShape" THEN DShape_zero ELSE DStrides_zero

\* a == b for two values of DShape, or two of DStrides: arg holds the two
\* constructor calls, out the two values
DynEq ==
    /\ pc = "idle"
    /\ \E k \in DynKinds :
        \E c1 \in DynMade(k), c2 \in DynMade(k) :
            /\ kind' = k
            /\ arg' = <<c1, c2>>
            /\ out' = <<construct(k, c1), construct(k, c2)>>
            /\ ret' = Bool(DynAxesRepr_eq(construct(k, c1), construct(k, c2)))
    /\ op' = "eq"
    /\ pc' = "done"
    /\ UNCHANGED <<hist, build, made, shape, strides, esize>>

Next ==
    \/ AxesOf
    \/ DynEq
    \/ ScalarOp
    \/ NLayoutIndex
    \/ AxesFold
    \/ CStrides
    \/ ViewLayout
    \/ BitsetBuilder
    \/ Tendency
    \/ Intersect
    \/ Also
    \/ AxesSizeHint
    \/ AxesNext
    \/ AxesNextBack
    \/ TryFull
    \/ TryIndexMut
    \/ TryToNShape
    \/ ToDynTryToNShape
    \/ TryToNStrides
    \/ DMaxOf
    \/ DAddOf
    \/ LargerOf
    \/ SmallerOf
    \/ BroadcastSingles
    \/ MaybeBroadcast
    \/ BroadcastDim
    \/ SizeChecked
    \/ SizeBytesChecked
    \/ OffsetRangeChecked
    \/ OffsetRangeBytesChecked
    \/ IntoChecked
    \/ IntoCheckedFor
    \/ CheckedTryFull
    \/ CheckedTryIndexMut
    \/ CheckedSize
    \/ CheckedIterIsize
    \/ DefaultC
    \/ DefaultF
    \/ StridesFrom
    \/ IsCOrder
    \/ IsFOrder

Spec == Init /\ [][Next]_vars

----------------------------------------------------------------------------
(* Mathematics the claims are stated in *)

\* The product of the entries of s, capped at cap + 1 (0 if any entry is 0).
RECURSIVE ProdFrom(_, _, _)
ProdFrom(s, i, cap) ==
    IF i > Len(s) THEN 1
    ELSE LET r == ProdFrom(s, i + 1, cap)
         IN  IF s[i] * r > cap THEN cap + 1 ELSE s[i] * r

HasZero(s) == \E i \in 1..Len(s) : s[i] = 0
ProdCapped(s, cap) == IF HasZero(s) THEN 0 ELSE ProdFrom(s, 1, cap)

\* The true product of the axis lengths, where it is at most ISIZE_MAX.
ElemCountFits(s) == ProdCapped(s, ISIZE_MAX) <= ISIZE_MAX
ElemCount(s) == ProdCapped(s, ISIZE_MAX)

----------------------------------------------------------------------------
(* C1: for every shape type, size_checked returns Some(p) exactly when the *)
(* true product p of the axis lengths is at most isize::MAX, and None      *)
(* otherwise.                                                              *)
C1_SizeCheckedExact ==
    op = "size_checked" =>
        ret = IF ElemCountFits(shape) THEN Some(ElemCount(shape)) ELSE None

\* The offsets a layout reaches, by the formula of offset_range_checked in
\* unbounded integers: axis i contributes (length - 1) * stride to the
\* minimum if negative and to the maximum if positive.
SpanTerm(s, st, i) == (s[i] - 1) * st[i]

RECURSIVE MinSum(_, _, _)
MinSum(s, st, n) ==
    IF n = 0 THEN 0 ELSE MinSum(s, st, n - 1) + Min(SpanTerm(s, st, n), 0)

RECURSIVE MaxSum(_, _, _)
MaxSum(s, st, n) ==
    IF n = 0 THEN 0 ELSE MaxSum(s, st, n - 1) + Max(SpanTerm(s, st, n), 0)

MathSpan(s, st) == MaxSum(s, st, Len(s)) - MinSum(s, st, Len(s))

AllStepsFit(s, st) ==
    /\ \A i \in 1..Len(s) : InIsize(SpanTerm(s, st, i))
    /\ \A n \in 0..Len(s) : InIsize(MinSum(s, st, n)) /\ InIsize(MaxSum(s, st, n))
    /\ InIsize(MathSpan(s, st))

----------------------------------------------------------------------------
(* C2: offset_range_checked returns Some(r) only when every intermediate   *)
(* value ((length-1)*stride, the accumulated minimum and maximum, and      *)
(* max-min) is representable in isize, and then r is the exact span; when  *)
(* a step would overflow it returns None; it never wraps or aborts.        *)
C2_OffsetRangeNeverWraps ==
    op = "offset_range_checked" =>
        /\ ret.tag \in {"Some", "None"}
        /\ ret.tag = "Some" =>
            AllStepsFit(shape, strides) /\ ret.val = MathSpan(shape, strides)
        /\ ~AllStepsFit(shape, strides) => ret = None

----------------------------------------------------------------------------
(* C3: for shape [2,0,3] with strides [3,6,-1], offset_range_checked       *)
(* returns Some(5): minimum offset -2, maximum offset 3.                   *)
C3_DocExampleSpanIsFive ==
    (/\ op = "offset_range_checked"
     /\ shape = <<2, 0, 3>>
     /\ strides = <<3, 6, -1>>) => ret = Some(5)

----------------------------------------------------------------------------
(* C4: offset_range_bytes_checked::<T> returns None if and only if the     *)
(* byte span (the element span times size_of::<T>()) exceeds isize::MAX,   *)
(* and a returned Some(b) holds exactly that byte span.                    *)
ByteSpan(s, st, sz) == MathSpan(s, st) * sz

C4_ByteRangeNoneIffTooLarge ==
    op = "offset_range_bytes_checked" =>
        ret = IF ByteSpan(shape, strides, esize) > ISIZE_MAX
              THEN None
              ELSE Some(ByteSpan(shape, strides, esize))

----------------------------------------------------------------------------
(* C5: size_bytes_checked::<T> returns Some(p * size_of::<T>()) exactly    *)
(* when the element count p and p * size_of::<T>() are both at most        *)
(* isize::MAX, and None otherwise.                                         *)
C5_SizeBytesCheckedExact ==
    op = "size_bytes_checked" =>
        ret = IF ElemCountFits(shape) /\ ElemCount(shape) * esize <= ISIZE_MAX
              THEN Some(ElemCount(shape) * esize)
              ELSE None

----------------------------------------------------------------------------
(* C6: every Checked value obtained through into_checked, into_checked_for *)
(* or Checked::try_full wraps a shape whose product of axis lengths is at  *)
(* most isize::MAX, whatever is then done with it; so CheckedShape::size   *)
(* never panics and iter_isize casts every axis length without loss.       *)
C6_CheckedWrapsValidShape ==
    /\ pc = "Checked" => ElemCountFits(shape)
    /\ op = "size" => ret.tag # "Panic"
    /\ op = "iter_isize" => out = shape

----------------------------------------------------------------------------
(* C7: for every shape whose products do not overflow, default_c returns   *)
(* the row-major strides: stride[i] is the product of shape[i+1..N], so    *)
(* the last stride is 1.                                                   *)
Suffix(s, i) == SubSeq(s, i + 1, Len(s))
Prefix(s, i) == SubSeq(s, 1, i - 1)

SuffixProductsFit(s) ==
    \A i \in 1..Len(s) : ProdCapped(Suffix(s, i), ISIZE_MAX) <= ISIZE_MAX
PrefixProductsFit(s) ==
    \A i \in 1..Len(s) : ProdCapped(Prefix(s, i), ISIZE_MAX) <= ISIZE_MAX

C7_DefaultCRowMajor ==
    (op = "default_c" /\ SuffixProductsFit(shape)) =>
        /\ pc = "NStrides"
        /\ Len(strides) = Len(shape)
        /\ \A i \in 1..Len(shape) :
            strides[i] = ProdCapped(Suffix(shape, i), ISIZE_MAX)

C7_Witness ==
    /\ op = "default_c"
    /\ shape = <<2, 3, 4>>
    /\ strides = <<12, 4, 1>>

----------------------------------------------------------------------------
(* C8: for every shape whose products do not overflow, default_f returns   *)
(* the column-major strides: stride[0] is 1 and stride[i] is the product   *)
(* of shape[0..i], the sequence that f_strides yields.                     *)
C8_DefaultFColumnMajor ==
    (op = "default_f" /\ PrefixProductsFit(shape)) =>
        /\ pc = "NStrides"
        /\ Len(strides) = Len(shape)
        /\ \A i \in 1..Len(shape) :
            strides[i] = ProdCapped(Prefix(shape, i), ISIZE_MAX)
        /\ ElemCountFits(shape) => Some(strides) = f_strides(build, shape)

----------------------------------------------------------------------------
(* C9: the strides that default_c builds for any shape, zero-length axes   *)
(* and axes of length 1 included, satisfy is_c_order(); and is_c_order()   *)
(* is true of every strides value of rank at most 1.                       *)
C9_DefaultCIsCOrder ==
    (pc = "NStrides" /\ op = "is_c_order") =>
        /\ made = "default_c" => ret = Bool(TRUE)
        /\ Len(strides) <= 1 => ret = Bool(TRUE)

----------------------------------------------------------------------------
(* C10: for a shape in which at most one axis is longer than 1, the        *)
(* strides from default_c and those from default_f satisfy both            *)
(* is_c_order() and is_f_order().                                          *)
AtMostOneLongAxis(s) == Cardinality({i \in 1..Len(s) : s[i] > 1}) <= 1

C10_DegenerateBothOrders ==
    (/\ pc = "NStrides"
     /\ made \in {"default_c", "default_f"}
     /\ AtMostOneLongAxis(shape)
     /\ op \in {"is_c_order", "is_f_order"}) => ret = Bool(TRUE)
----------------------------------------------------------------------------
(* C11: broadcast resolution of two shapes of any ranks aligns the axes    *)
(* from the trailing end, pads the shorter shape with leading axes of      *)
(* length 1, and yields for each aligned pair the length that is not 1; it *)
(* fails with IncompatibleShapes exactly when some aligned pair has two    *)
(* different lengths neither of which is 1; the result does not depend on  *)
(* the order of the operands.                                              *)
PadLeft(s, n) ==
    [i \in 1..n |-> IF i <= n - Len(s) THEN 1 ELSE s[i - (n - Len(s))]]

Clashes(a, b) ==
    LET n == Max(Len(a), Len(b))
    IN  {i \in 1..n : /\ PadLeft(a, n)[i] # PadLeft(b, n)[i]
                      /\ PadLeft(a, n)[i] # 1
                      /\ PadLeft(b, n)[i] # 1}

Stretched(a, b) ==
    LET n == Max(Len(a), Len(b))
    IN  [i \in 1..n |-> IF PadLeft(a, n)[i] = 1 THEN PadLeft(b, n)[i]
                        ELSE PadLeft(a, n)[i]]

C11_BroadcastResolution ==
    op = "broadcast_singles" =>
        LET swapped == singles_co_broadcast(arg, "Array", shape)
        IN  /\ Clashes(shape, arg) = {} =>
                /\ ret.tag = "Ok"
                /\ out = Stretched(shape, arg)
                /\ swapped = Ok(out)
            /\ Clashes(shape, arg) # {} =>
                /\ ret.tag = "IncompatibleShapes"
                /\ swapped.tag = "IncompatibleShapes"

C11_Witness ==
    /\ op = "broadcast_singles"
    /\ shape = <<3, 1>>
    /\ arg = <<1, 4>>
    /\ ret.tag = "Ok"
    /\ out = <<3, 4>>

C11_WitnessFails ==
    /\ op = "broadcast_singles"
    /\ shape = <<2, 3>>
    /\ arg = <<4>>
    /\ ret.tag = "IncompatibleShapes"

----------------------------------------------------------------------------
(* C12: a broadcast view of an operand against a target shape has exactly  *)
(* the target shape and stride 0 on every axis that was added or stretched *)
(* from length 1, so every position along such an axis reads the same      *)
(* stored element; for a scalar operand maybe_broadcast returns Some for   *)
(* every target shape, the rank-0 shape included, all strides are 0, every *)
(* element read is the scalar, and broadcast_dim() is the rank-0 dimension.*)
AddedOrStretched(from, to, i) ==
    LET k == Len(to) - Len(from)
    IN  \/ i <= k
        \/ i > k /\ from[i - k] = 1 /\ to[i] # 1

\* The indices of a shape, and the offset at which a view reads an index.
IndicesOf(sh) ==
    {ix \in [1..Len(sh) -> 0..5] : \A i \in 1..Len(sh) : ix[i] < sh[i]}

RECURSIVE OffsetOf(_, _, _)
OffsetOf(ix, st, i) ==
    IF i > Len(ix) THEN 0 ELSE ix[i] * st[i] + OffsetOf(ix, st, i + 1)

C12_BroadcastViewZeroStrides ==
    /\ op = "maybe_broadcast" =>
        /\ ret.tag # "Panic"
        /\ ret.tag = "Some" =>
            /\ out[1] = arg
            /\ \A i \in 1..Len(arg) :
                AddedOrStretched(broadcast_dim(kind, shape), arg, i) =>
                    /\ out[2][i] = 0
                    /\ \A ix \in IndicesOf(arg) :
                        OffsetOf(ix, out[2], 1)
                            = OffsetOf([ix EXCEPT ![i] = 0], out[2], 1)
        /\ kind = "Scalar" =>
            /\ ret.tag = "Some"
            /\ \A i \in 1..Len(arg) : out[2][i] = 0
            /\ \A ix \in IndicesOf(arg) : OffsetOf(ix, out[2], 1) = 0
    /\ (op = "broadcast_dim" /\ kind = "Scalar") => out = <<>>
----------------------------------------------------------------------------
(* C13: for any two fixed ranks a and b in 1..12, DMax gives the fixed     *)
(* rank max(a, b); it gives DDyn whenever either operand is DDyn; it is    *)
(* symmetric in its operands.                                              *)
IsFixed(d) == d.tag = "NDim"
InOneToTwelve(d) == IsFixed(d) /\ d.val \in 1..12

C13_DMaxIsMaximum ==
    op = "DMax" =>
        /\ (InOneToTwelve(arg[1]) /\ InOneToTwelve(arg[2])) =>
            /\ ret = NDim(Max(arg[1].val, arg[2].val))
            /\ DMax(arg[2], arg[1]) = ret
        /\ (arg[1] = DDyn \/ arg[2] = DDyn) =>
            /\ ret = DDyn
            /\ DMax(arg[2], arg[1]) = ret

C13_Witness ==
    /\ op = "DMax"
    /\ arg = <<NDim(2), NDim(3)>>
    /\ ret = NDim(3)

----------------------------------------------------------------------------
----------------------------------------------------------------------------
(* C15: DMax and DAdd are total: for every ordered pair of rank            *)
(* descriptors drawn from the fixed ranks 0..12 and the dynamic marker,    *)
(* each is defined and yields a valid rank descriptor.                     *)
C15_RankOperationsTotal ==
    op \in {"DMax", "DAdd"} => ret \in RankDescriptors

----------------------------------------------------------------------------
----------------------------------------------------------------------------
(* C17: try_to_nshape::<N> (and try_to_nstrides::<N> for strides) succeeds *)
(* exactly when the actual rank equals N, returning the same axis values   *)
(* in the same order, and otherwise returns BadDimality carrying the       *)
(* actual rank; so to_dyn followed by try_to_nshape::<N> returns the       *)
(* original NShape<N>.                                                     *)
C17_TryToNShapeExact ==
    /\ op \in {"try_to_nshape", "to_dyn_try_to_nshape"} =>
        IF Len(shape) = arg[1]
        THEN ret.tag = "Ok" /\ out = shape
        ELSE ret = Err("BadDimality", Len(shape))
    /\ op = "try_to_nstrides" =>
        IF Len(strides) = arg[1]
        THEN ret.tag = "Ok" /\ out = strides
        ELSE ret = Err("BadDimality", Len(strides))

C17_Witness ==
    /\ op = "to_dyn_try_to_nshape"
    /\ Len(shape) = MaxDynRank
    /\ shape[1] = 2
    /\ shape[2] = 0
    /\ arg = <<MaxDynRank>>
    /\ ret.tag = "Ok"
    /\ out = shape

C17_WitnessMismatch ==
    /\ op = "try_to_nshape"
    /\ kind = "DShape"
    /\ Len(shape) = 3
    /\ arg = <<2>>
    /\ ret = Err("BadDimality", 3)
----------------------------------------------------------------------------
(* C18: for every shape type, whenever try_full(ndim, value) succeeds the  *)
(* returned shape has exactly ndim axes and every axis length is value;    *)
(* a fixed-rank type fails with BadDimality exactly when ndim differs from *)
(* the fixed rank, a dynamic shape succeeds for every ndim (above 4 too),  *)
(* and a shape with const axis lengths fails unless value equals every     *)
(* const length.                                                           *)
C18_TryFullUniform ==
    (op = "try_full" /\ made = "Shape::try_full") =>
        /\ ret.tag = "Ok" =>
            /\ Len(shape) = arg[1]
            /\ \A i \in 1..Len(shape) : shape[i] = arg[2]
        /\ kind = "NShape" =>
            IF arg[1] # arg[3] THEN ret = Err("BadDimality", arg[1])
            ELSE ret.tag = "Ok"
        /\ kind = "DShape" => ret.tag = "Ok"
        /\ kind = "ConstMatrixShape" =>
            (ret.tag = "Ok" => arg[2] = arg[3] /\ arg[2] = arg[4])

----------------------------------------------------------------------------
(* C19: try_index_mut(index) reports its outcome as a value and never      *)
(* aborts: on every shape type it returns OutOfBounds whenever index is at *)
(* least the rank; for a smaller index it returns Ok with mutable access   *)
(* to exactly that axis on NShape and DShape and FixedIndex on             *)
(* ConstMatrixShape and Checked; on any error the shape is unchanged.      *)
C19_TryIndexMutOutcome ==
    op = "try_index_mut" =>
        /\ ret.tag # "Panic"
        /\ arg[1] >= Len(shape) => ret = Err("OutOfBounds", arg[1])
        /\ arg[1] < Len(shape) =>
            IF pc = "Checked" \/ kind = "ConstMatrixShape"
            THEN ret = Err("FixedIndex", arg[1])
            ELSE ret = Ok(arg[1])
        /\ ret.tag # "Ok" => out = shape
----------------------------------------------------------------------------
(* C20: for a layout of rank n, calling next() repeatedly on its Axes      *)
(* iterator yields exactly n descriptions, for the axes 0, 1, ..., n-1 in  *)
(* ascending order, each with len = shape[i] and stride = strides[i], and  *)
(* then None; calling next_back() repeatedly yields the same descriptions  *)
(* for the axes n-1, ..., 0 in descending order, and then None.            *)
OnlyCalls(name) == hist # <<>> /\ \A j \in 1..Len(hist) : hist[j] = name

C20_AxesInOrder ==
    /\ (pc = "Axes" /\ OnlyCalls("next")) =>
        /\ out = [i \in 1..Min(Len(hist), Len(shape)) |->
                    AxisDescription(i - 1, shape[i], strides[i])]
        /\ ret = IF Len(hist) <= Len(shape) THEN Some(Len(hist) - 1) ELSE None
    /\ (pc = "Axes" /\ OnlyCalls("next_back")) =>
        /\ out = [i \in 1..Min(Len(hist), Len(shape)) |->
                    AxisDescription(Len(shape) - i, shape[Len(shape) - i + 1],
                                    strides[Len(shape) - i + 1])]
        /\ ret = IF Len(hist) <= Len(shape)
                 THEN Some(Len(shape) - Len(hist)) ELSE None

C20_Witness ==
    /\ pc = "Axes"
    /\ shape = <<2, 3, 2>>
    /\ strides = <<3, -1, 3>>
    /\ hist = <<"next", "next", "next", "next">>
    /\ Len(out) = 3
    /\ ret = None

C20_WitnessBack ==
    /\ pc = "Axes"
    /\ shape = <<2, 3, 2>>
    /\ hist = <<"next_back", "next_back", "next_back", "next_back">>
    /\ Len(out) = 3
    /\ out[1].axis = 2
    /\ ret = None
----------------------------------------------------------------------------
(* C21: under every interleaving of next() and next_back() on one Axes     *)
(* iterator of rank n, start <= end <= n in every reachable state; every   *)
(* axis is yielded exactly once; size_hint() is the exact number of        *)
(* descriptions still to come, end - start; and once n descriptions have   *)
(* been yielded every further call from either end returns None and leaves *)
(* the iterator as it was, with no underflow.                              *)
YieldedAxes == {out[j].axis : j \in 1..Len(out)}

C21_StateOk ==
    pc \in {"Axes", "hinted"} =>
        /\ 0 <= arg[1] /\ arg[1] <= arg[2] /\ arg[2] <= Len(shape)
        /\ YieldedAxes = (0..(arg[1] - 1)) \cup (arg[2]..(Len(shape) - 1))
        /\ Cardinality(YieldedAxes) = Len(out)
        /\ \A j \in 1..Len(out) :
              out[j] = AxisDescription(out[j].axis, shape[out[j].axis + 1],
                                       strides[out[j].axis + 1])
        /\ Axes_size_hint(build, [start |-> arg[1], end |-> arg[2]])
              = Some(Len(shape) - Len(out))
        /\ pc = "hinted" => ret = Some(arg[2] - arg[1])
        /\ ret.tag # "Panic"

C21_ExhaustedStep ==
    (pc = "Axes" /\ Len(out) = Len(shape) /\ op' \in {"next", "next_back"}) =>
        /\ ret' = None
        /\ arg' = arg
        /\ out' = out

C21_AxesInterleaved == []C21_StateOk /\ [][C21_ExhaustedStep]_vars

C21_Witness ==
    /\ pc = "Axes"
    /\ shape = <<2, 3, 2>>
    /\ hist = <<"next_back", "next", "next_back", "next">>
    /\ [j \in 1..Len(out) |-> out[j].axis] = <<2, 0, 1>>
    /\ arg = <<1, 1>>
    /\ ret = None

C21_WitnessHint ==
    /\ pc = "hinted"
    /\ shape = <<2, 3, 2>>
    /\ hist = <<"next", "next_back">>
    /\ ret = Some(1)
----------------------------------------------------------------------------
(* C23: for every LayoutBitset value, tendency() is (CORDER set ? 1 : 0) + *)
(* (CPREFER set ? 1 : 0) - (FORDER set ? 1 : 0) - (FPREFER set ? 1 : 0),   *)
(* so it lies in -2..2; c() scores +2, f() scores -2, and                  *)
(* one_dimensional() (all four flags) and none() (no flag) score 0;        *)
(* intersect and also are the flag-wise AND and OR.                        *)
HasFlag(l, f) == (l \div f) % 2 = 1
Score(l) ==
    (IF HasFlag(l, CORDER) THEN 1 ELSE 0) + (IF HasFlag(l, CPREFER) THEN 1 ELSE 0)
    - (IF HasFlag(l, FORDER) THEN 1 ELSE 0) - (IF HasFlag(l, FPREFER) THEN 1 ELSE 0)

C23_TendencyAndAlgebra ==
    /\ op = "tendency" =>
        /\ ret = Some(Score(arg[1]))
        /\ ret.val \in -2..2
        /\ made = "c" => arg[1] = CORDER + CPREFER /\ ret = Some(2)
        /\ made = "f" => arg[1] = FORDER + FPREFER /\ ret = Some(-2)
        /\ made = "one_dimensional" =>
              arg[1] = CORDER + FORDER + CPREFER + FPREFER /\ ret = Some(0)
        /\ made = "none" => arg[1] = 0 /\ ret = Some(0)
    /\ op = "intersect" =>
        \A f \in Flags :
            HasFlag(ret.val, f) <=> (HasFlag(arg[1], f) /\ HasFlag(arg[2], f))
    /\ op = "also" =>
        \A f \in Flags :
            HasFlag(ret.val, f) <=> (HasFlag(arg[1], f) \/ HasFlag(arg[2], f))
    /\ op \in {"intersect", "also"} => ret.val \in LayoutBitsets

C23_Witness ==
    /\ op = "tendency"
    /\ made = "LayoutBitset"
    /\ arg = <<CORDER + CPREFER + FPREFER>>
    /\ ret = Some(1)

C23_WitnessIntersect ==
    /\ op = "intersect"
    /\ arg = <<CORDER + CPREFER, CPREFER + FPREFER>>
    /\ ret = Some(CPREFER)
----------------------------------------------------------------------------
(* C22: slicing a contiguous row-major 2-D array with both axes longer     *)
(* than 1 to every other row gives a classification with CPREFER set and   *)
(* CORDER, FORDER, FPREFER clear; slicing a contiguous column-major one to *)
(* every other column gives FPREFER only.                                  *)
C22_SkipKeepsPreference ==
    op = "layout" =>
        /\ (made = "zeros" /\ arg[1] > 1 /\ arg[2] > 1 /\ out = <<EveryOther, Full>>)
              => ret = Some(CPREFER)
        /\ (made = "zeros.f" /\ arg[1] > 1 /\ arg[2] > 1 /\ out = <<Full, EveryOther>>)
              => ret = Some(FPREFER)

(* C22, with at least three rows (columns) in the array, so that the slice *)
(* keeps at least two of them; a slice that keeps a single row (column) is *)
(* effectively one-dimensional and has all four flags.                     *)
C22_SkipKeepsPreferenceOfTwo ==
    op = "layout" =>
        /\ (made = "zeros" /\ arg[1] > 2 /\ arg[2] > 1 /\ out = <<EveryOther, Full>>)
              => ret = Some(CPREFER)
        /\ (made = "zeros.f" /\ arg[1] > 1 /\ arg[2] > 2 /\ out = <<Full, EveryOther>>)
              => ret = Some(FPREFER)
        /\ (made = "zeros" /\ arg[1] = 2 /\ arg[2] > 1 /\ out = <<EveryOther, Full>>)
              => ret = Some(CORDER + FORDER + CPREFER + FPREFER)
        /\ (made = "zeros.f" /\ arg[1] > 1 /\ arg[2] = 2 /\ out = <<Full, EveryOther>>)
              => ret = Some(CORDER + FORDER + CPREFER + FPREFER)

C22_Witness ==
    /\ op = "layout"
    /\ made = "zeros"
    /\ arg = <<5, 5>>
    /\ out = <<EveryOther, Full>>
    /\ shape = <<3, 5>>
    /\ strides = <<10, 1>>
    /\ ret = Some(CPREFER)
----------------------------------------------------------------------------
(* C24: in offset_range_checked an axis of length 0 is not passed over: it *)
(* contributes (0 - 1) * stride = -stride to the running minimum or        *)
(* maximum like any other axis, so the result for a layout with a          *)
(* zero-length axis of non-zero stride differs from the result for the     *)
(* same layout with that axis removed.                                     *)
RemoveAt(s, i) == [j \in 1..(Len(s) - 1) |-> IF j < i THEN s[j] ELSE s[j + 1]]
AbsVal(x) == IF x < 0 THEN -x ELSE x
EmptyAxes == {i \in 1..Len(shape) : shape[i] = 0 /\ strides[i] # 0}
WithoutAxis(i) ==
    offset_range_checked(build, kind, RemoveAt(shape, i), RemoveAt(strides, i))

C24_WitnessBothNone ==
    /\ op = "offset_range_checked"
    /\ shape = <<3, 0>>
    /\ strides = <<ISIZE_MAX, 3>>
    /\ WithoutAxis(2) = None
    /\ ret = None
----------------------------------------------------------------------------
(* C25: c_strides(shape) yields, in the order of the axes 0..n-1, the      *)
(* row-major strides of the shape: item i is the product of shape[i+1..n]  *)
(* and the last item is 1, the sequence that default_c produces (12, 4, 1  *)
(* for [2,3,4]).                                                           *)
C25_CStridesRowMajor ==
    (op = "c_strides" /\ hist = <<"next">>) =>
        /\ ret = Unit
        /\ out = [i \in 1..Len(shape) |-> row_major_from(shape, i)]
        /\ default_c(build, shape) = Some(out)
        /\ shape = <<2, 3, 4>> => out = <<12, 4, 1>>

C25_WitnessColumnMajor ==
    /\ op = "c_strides"
    /\ hist = <<"next">>
    /\ shape = <<2, 3, 4>>
    /\ out = <<1, 2, 6>>
----------------------------------------------------------------------------
(* C26: folding an Axes iterator from any reachable state (start, end)     *)
(* visits exactly the descriptions that repeated next() calls yield from   *)
(* that state, in the same ascending order and with the same axis, len and *)
(* stride, so max_by_key over the axis lengths is the one found by         *)
(* stepping; for the shape (3,5,4) it selects Axis(1) with len 5.          *)
RECURSIVE NextAll(_, _, _)
NextAll(it, sh, st) ==
    LET r == Axes_next(it, sh, st)
    IN  IF r.tag = "None" THEN <<>> ELSE <<r.item>> \o NextAll(r.it, sh, st)

C26_FoldIsStepping ==
    op = "fold" =>
        LET stepped == NextAll([start |-> arg[1], end |-> arg[2]], shape, strides)
        IN  /\ out = stepped
            /\ \A j \in 1..(Len(out) - 1) : out[j].axis < out[j + 1].axis
            /\ ret = max_by_key_len(stepped, 1, None)
            /\ (shape = <<3, 5, 4>> /\ arg = <<0, 3>>) =>
                  ret.tag = "Some" /\ ret.val.axis = 1 /\ ret.val.len = 5

C26_Witness ==
    /\ op = "fold"
    /\ shape = <<3, 5, 4>>
    /\ arg = <<0, 3>>
    /\ Len(out) = 3
    /\ ret = Some(AxisDescription(1, 5, 4))

C26_WitnessPartial ==
    /\ op = "fold"
    /\ shape = <<2, 3, 2>>
    /\ strides = <<3, -1, 3>>
    /\ hist = <<"next", "next_back">>
    /\ arg = <<1, 2>>
    /\ out = <<AxisDescription(1, 3, -1)>>
----------------------------------------------------------------------------
(* C27: for every shape of fixed rank with all axis lengths >= 1 and an    *)
(* element count of at most isize::MAX, NLayout::index over the strides of *)
(* default_c maps the indices within the shape one-to-one onto the offsets *)
(* 0..size-1, increasing in row-major lexicographic order of the indices;  *)
(* so no index within the shape addresses an offset outside the size       *)
(* elements, and offset_range_checked is size - 1.                         *)

\* ix comes before jx in lexicographic order
LexLess(ix, jx) ==
    \E i \in 1..Len(ix) :
        /\ ix[i] < jx[i]
        /\ \A j \in 1..(i - 1) : ix[j] = jx[j]

\* The number of indices of the shape sh that come before ix: the value of
\* ix read as a number whose digit i has the base sh[i]
RECURSIVE LexRank(_, _, _, _)
LexRank(ix, sh, i, r) ==
    IF i > Len(ix) THEN r ELSE LexRank(ix, sh, i + 1, r * sh[i] + ix[i])

SmallShape(sh) == \A i \in 1..Len(sh) : sh[i] <= 5

C27_IndexIsRowMajorRank ==
    (op = "index" /\ ElemCountFits(shape)) =>
        /\ ret = Some(LexRank(arg, shape, 1, 0))
        /\ 0 <= ret.val /\ ret.val <= ElemCount(shape) - 1
        /\ SmallShape(shape) =>
            LET all == IndicesOf(shape)
            IN  /\ ret.val = Cardinality({jx \in all : LexLess(jx, arg)})
                /\ \A jx \in all :
                      LET o == NLayout_index(build, jx, strides, 1, 0)
                      IN  /\ o.tag = "Some"
                          /\ LexLess(jx, arg) => o.val < ret.val
                          /\ o.val = ret.val => jx = arg
                /\ {NLayout_index(build, jx, strides, 1, 0).val : jx \in all}
                     = 0..(ElemCount(shape) - 1)
        /\ offset_range_checked(build, kind, shape, strides)
             = Some(ElemCount(shape) - 1)

C27_Witness ==
    /\ op = "index"
    /\ shape = <<2, 3, 2>>
    /\ strides = <<6, 2, 1>>
    /\ arg = <<1, 2, 1>>
    /\ ret = Some(11)

C27_WitnessLong ==
    /\ op = "index"
    /\ shape = <<1, ISIZE_MAX>>
    /\ arg = <<0, ISIZE_MAX - 1>>
    /\ ret = Some(ISIZE_MAX - 1)
----------------------------------------------------------------------------
(* C28: for every NShape s and scalar k, where nothing overflows, the      *)
(* operators that work in place agree with those that work by value:       *)
(* after `s *= k` the shape is `s * k`, every axis multiplied by k, and    *)
(* after `s += k` it is `s + k`.                                           *)
NoOverflow(s, k) ==
    \A i \in 1..Len(s) : s[i] * k <= USIZE_MAX /\ s[i] + k <= USIZE_MAX

C28_InPlaceIsByValue ==
    /\ (op = "mul_assign" /\ NoOverflow(shape, arg[1])) =>
        /\ ret = Unit
        /\ out = [i \in 1..Len(shape) |-> shape[i] * arg[1]]
        /\ NShape_mul(build, shape, arg[1]) = Some(out)
    /\ (op = "add_assign" /\ NoOverflow(shape, arg[1])) =>
        /\ ret = Unit
        /\ out = [i \in 1..Len(shape) |-> shape[i] + arg[1]]
        /\ NShape_add(build, shape, arg[1]) = Some(out)

C28_WitnessSum ==
    /\ op = "mul_assign"
    /\ shape = <<2, 3>>
    /\ arg = <<3>>
    /\ out = <<5, 6>>
    /\ NShape_mul(build, shape, 3) = Some(<<6, 9>>)
----------------------------------------------------------------------------
(* C29: equality of dynamic shapes and strides depends on the logical      *)
(* sequence of axes alone: two DShape (or two DStrides) values of the same *)
(* rank and with the same axis values compare equal however they were made *)
(* (From a slice, try_full, Default, Zero), whatever the unused inline     *)
(* slots hold.                                                             *)
SameAxes(a, b) ==
    /\ DynAxesRepr_ndim(a) = DynAxesRepr_ndim(b)
    /\ DynAxesRepr_deref(a) = DynAxesRepr_deref(b)

C29_EqualityIsLogical ==
    op = "eq" => ret = Bool(SameAxes(out[1], out[2]))

C29_WitnessPadding ==
    /\ op = "eq"
    /\ kind = "DShape"
    /\ arg = <<Made("try_full", <<2, 2>>), Made("from", <<2, 2>>)>>
    /\ SameAxes(out[1], out[2])
    /\ ret = Bool(FALSE)

----------------------------------------------------------------------------
(* C30: every DShape or DStrides value that a constructor gives (From a    *)
(* slice, try_full, Default, Zero) keeps the invariant of the              *)
(* representation: the Inline variant exactly when the rank is at most 4,  *)
(* with a stored length of at most CAP, so that the unchecked slice of     *)
(* Deref is in bounds; the heap variant exactly when the rank is above 4;  *)
(* and ndim() is the number of axis entries supplied, which as_slice()     *)
(* reads back unchanged and in order.                                      *)

\* The axis entries a constructor call supplies
Supplied(c) ==
    CASE c.ctor = "from" -> c.items
      [] c.ctor = "try_full" -> [i \in 1..c.items[1] |-> c.items[2]]
      [] OTHER -> <<0>>

C30_RepresentationInvariant ==
    op = "eq" =>
        \A j \in 1..2 :
            LET d == out[j]
                want == Supplied(arg[j])
            IN  /\ d.variant = "Inline" <=> Len(want) <= CAP
                /\ d.variant = "Alloc" <=> Len(want) > CAP
                /\ d.variant = "Inline" => d.len <= CAP /\ Len(d.items) = CAP
                /\ DynAxesRepr_ndim(d) = Len(want)
                /\ DynAxesRepr_deref(d) = want

C30_WitnessEmptyHeap ==
    /\ op = "eq"
    /\ kind = "DShape"
    /\ arg[1] = Made("try_full", <<CAP + 1, 2>>)
    /\ out[1] = Alloc(<<>>)
    /\ DynAxesRepr_ndim(out[1]) = 0

====
